---------------------------- MODULE Spec2Model ----------------------------
(***************************************************************************)
(* A model of the novel generator's orchestration (backend/main.py,        *)
(* backend/agent_novel_generator.py), of its task stores                   *)
(* (backend/redis_cache.py) and of the provider routing layer              *)
(* (backend/llm_providers.py).                                             *)
(*                                                                         *)
(* Quality scores are floats in the source; the model keeps them as        *)
(* integer percentages (0.7 is 70), which is exact for every comparison    *)
(* the code makes.  Python dicts are functions whose domain is the set of  *)
(* keys; None is "none" for strings and <<>> for the optional result.      *)
(***************************************************************************)
EXTENDS Integers, Sequences, FiniteSets, TLC

VARIABLES
    redisUp,            \* whether the RedisCache objects reached a Redis server
    redisFlaky,         \* whether that server's operations can fail later on
    request,            \* the validated NovelRequest of the task
    pc,                 \* position of process_novel_generation/generate_novel
    tasks_db,           \* main.tasks_db[task_id]
    redisTask,          \* the task key on the Redis server both caches share
    fallbackMain,       \* the task key in main.cache._fallback_cache
    fallbackGen,        \* the task key in AgentNovelGenerator.cache._fallback_cache
    outline,            \* number of chapter_outlines of the parsed outline, -1 before
    lowQuality,         \* outline_response.quality_score < 0.6
    chapters,           \* generate_novel's list `chapters`
    chapter_num,        \* loop variable of generate_novel
    iteration,          \* loop variable of _create_chapter_with_collaboration
    chapter,            \* local `chapter` of the loops, <<>> while unbound
    polished_chapters,  \* local list of _final_review_and_polish
    review_idx,         \* position of `for chapter in chapters`
    collaboration_log,  \* roles of the AgentMessage entries, in order
    calls,              \* history: every agent invocation <<role, chapter, stage>>
    planner_reply,      \* history: what the Planner's provider call gave back
    pending_error,      \* the exception travelling to an except clause
    result,             \* the NovelResult built by generate_novel, <<>> before
    issued,             \* history: last status value handed to a store
    issued_progress,    \* history: last progress value handed to a store
    review_response,    \* what the last Reviewer call gave, while
                        \* _final_review_and_polish is running
    response,           \* what the last get_novel_result call answered
    registry,           \* MultiModelManager.providers (registered names)
    rpc,                \* position of the routing call in progress
    providers,          \* the provider list of the routing call
    fb_idx,             \* position of generate_with_fallback's for loop
    attempts,           \* history: providers invoked by the routing call
    failures,           \* history: providers whose generate raised
    last_error,         \* generate_with_fallback's last_error
    outcome,            \* how the routing call ended
    tasks,              \* generate_parallel's asyncio tasks
    output,             \* generate_parallel's returned dict
    llm_fn,             \* the retry-wrapped function being called
    llm_pc,             \* position of that call inside the retry wrapper
    attempt_number,     \* tenacity's attempt_number of the call
    attempt_log,        \* history: what each attempt at the provider gave
    slept,              \* history: the sleeps of the call, in seconds
    llm_result,         \* what the call returned or raised
    review_data,        \* the parsed review handed to _calculate_quality_score
    quality_score,      \* what _calculate_quality_score returned
    raw_request,        \* the body of a POST /api/novel/create
    validation,         \* what NovelRequest's validation made of it
    route_call,         \* history: task_type and len(prompt) of route_request
    provider_of,        \* MultiModelManager.providers: the object under a name
    cost_log,           \* history: the estimate_total_cost calls so far
    rate_clock,         \* time.time(), in ticks
    rate_key,           \* the rate_limit key of the user on the Redis server
    rate_limit_cache,   \* cache._rate_limit_cache[user_id]
    rate_calls,         \* the check_rate_limit call of each worker thread
    rate_results,       \* history: what the finished calls returned
    status_update,      \* the _update_task_status call under way: how many
                        \* were made, and which of its writes comes next
    seen,               \* what a reader of the task key got last
    chapter_outlines,   \* generate_chapters_batch's argument
    batch_outline,      \* its variable `outline`, which its for loop rebinds
    batch_i,            \* the loop's i
    batch_tasks,        \* its list `tasks` and what became of each coroutine
    all_results,        \* its list all_results
    batch_out,          \* how the call ended
    lock_clock,         \* time.time(), in ticks
    lock_entry,         \* the lock key on the Redis server, or
                        \* _lock_cache[key] of a cache without a client
    lock_calls,         \* the acquire_lock or release_lock call of each thread
    lock_held,          \* what acquire_lock returned to each caller
    lock_next           \* history: identifiers drawn so far

orchVars == <<request, pc, tasks_db, redisTask, fallbackMain, fallbackGen,
              outline, lowQuality,
              chapters, chapter_num, iteration, chapter, polished_chapters,
              review_idx, collaboration_log, calls, planner_reply,
              pending_error, result, issued, issued_progress,
              review_response, response>>
routeVars == <<registry, rpc, providers, fb_idx, attempts, failures,
               last_error, outcome, tasks, output>>
llmVars == <<llm_fn, llm_pc, attempt_number, attempt_log, slept, llm_result>>
scoreVars == <<review_data, quality_score>>
requestVars == <<raw_request, validation>>
managerVars == <<route_call, provider_of, cost_log>>
rateVars == <<rate_clock, rate_key, rate_limit_cache, rate_calls,
              rate_results>>
readerVars == <<status_update, seen>>
batchVars == <<chapter_outlines, batch_outline, batch_i, batch_tasks,
               all_results, batch_out>>
lockVars == <<lock_clock, lock_entry, lock_calls, lock_held, lock_next>>
sideVars == <<managerVars, rateVars, readerVars, batchVars, lockVars>>
unitVars == <<llmVars, scoreVars, requestVars, sideVars>>
baseVars == <<redisUp, redisFlaky, orchVars, routeVars>>
vars == <<baseVars, unitVars>>

-----------------------------------------------------------------------------
(* Bounds of the model *)

\* largest chapter_count a request of the model asks for (the code allows 30)
MaxChapterCount == 3
\* most chapter outlines in a Planner reply of the model
MaxOutlines == 3
\* longest provider list handed to the routing layer
MaxProviders == 3
\* most chapter outlines in a Planner reply while the Redis server can fail
MaxSinkOutlines == 1
\* worker threads that run check_rate_limit at the same time, the calls they
\* make in all, and the ticks the clock runs
MaxCallers == 2
MaxRateCalls == 4
MaxClock == 2
\* the limit and the window main.check_rate_limit passes
\* (settings.RATE_LIMIT_PER_HOUR, 10 unless configured, and 3600 s), scaled
\* down to calls and ticks the model can run through
LimitPerWindow == 2
WindowTicks == 1
\* the longest list of chapter outlines handed to generate_chapters_batch
MaxBatchOutlines == 4
\* the acquire_lock calls of a run, the ticks its clock runs, and the
\* lifetime of a lock (expire, 30 s unless the caller says otherwise) in ticks
MaxLockCalls == 3
MaxLockClock == 2
LockExpireTicks == 1

(* Program constants *)

MinChapterCount == 3
ChapterCountLimit == 30
DefaultChapterCount == 12
MinWordCount == 5000
MaxWordCount == 100000
MinWordsPerChapter == 200
StopAfterAttempt == 3
WaitMultiplier == 1
WaitMin == 4
WaitMax == 10
RateLimitSleep == 10
MaxAxisScore == 5
AGENT_MAX_ITERATIONS == 3
AGENT_REVIEW_THRESHOLD == 70
OutlineQualityGate == 60
PolishGate == 80
ReviewAcceptGate == 70
ReviewFallbackScore == 60
ParallelDefaultCap == 3

NONE == "none"

PENDING == "pending"
PLANNING == "planning"
WRITING == "writing"
REVIEWING == "reviewing"
POLISHING == "polishing"
COMPLETED == "completed"
FAILED == "failed"

NovelStatus == {PENDING, PLANNING, "outlining", WRITING, REVIEWING, POLISHING,
                COMPLETED, FAILED}

-----------------------------------------------------------------------------
(* Task records and the stores that hold them *)

\* get_task's None: no task under the key
NoTask == [k \in {} |-> NONE]

Has(d, k) == k \in DOMAIN d

\* dict.update(u): the keys of u replace or extend those of d
DictUpdate(d, u) == u @@ d

\* the record create_novel stores: NovelTask(...).dict()
NewTask ==
    [status |-> PENDING, progress |-> 0, current_stage |-> "created",
     error |-> NONE, result |-> <<>>]

\* RedisCache.update_task_status on a task that get_task returned
UpdateFields(task, status, progress, error) ==
    DictUpdate(task,
        [status |-> status, progress |-> progress] @@
        (IF error # NONE THEN [error |-> error] ELSE NoTask))

\* Outcomes of one Redis operation: it works, or raises a RedisError that
\* get_task turns into None and set_task into False.  The in-memory
\* fallback of a cache that never connected cannot fail.
OpOutcomes == IF redisUp /\ redisFlaky THEN BOOLEAN ELSE {TRUE}

GenCache == IF redisUp THEN redisTask ELSE fallbackGen
MainCache == IF redisUp THEN redisTask ELSE fallbackMain

\* the task key after AgentNovelGenerator._update_task_status, for given
\* outcomes g1, s1 (get and set of cache.update_task_status) and g2, s2
\* (get and set of the current_stage update)
StatusWrite(c0, status, progress, message, error, g1, s1, g2, s2) ==
    LET t1 == IF g1 THEN c0 ELSE NoTask
        c1 == IF DOMAIN t1 # {} /\ s1
              THEN UpdateFields(t1, status, progress, error) ELSE c0
        t2 == IF g2 THEN c1 ELSE NoTask
        c2 == IF s2 THEN DictUpdate(t2, [current_stage |-> message]) ELSE c1
    IN  IF message # NONE THEN c2 ELSE c1

\* AgentNovelGenerator._update_task_status: never raises
UpdateTaskStatus(status, progress, message, error) ==
    /\ \E g1, s1, g2, s2 \in OpOutcomes :
          LET c == StatusWrite(GenCache, status, progress, message, error,
                               g1, s1, g2, s2)
          IN  IF redisUp
              THEN redisTask' = c /\ UNCHANGED fallbackGen
              ELSE fallbackGen' = c /\ UNCHANGED redisTask
    /\ issued' = status
    /\ issued_progress' = progress
    /\ UNCHANGED fallbackMain

\* main.update_task_in_storage
UpdateTaskInStorage(updates) ==
    /\ tasks_db' = DictUpdate(tasks_db, updates)
    /\ \E g, s \in OpOutcomes :
          LET t == IF g THEN MainCache ELSE NoTask
              c == IF s THEN DictUpdate(t, updates) ELSE MainCache
          IN  IF redisUp
              THEN redisTask' = c /\ UNCHANGED fallbackMain
              ELSE fallbackMain' = c /\ UNCHANGED redisTask
    /\ issued' = updates.status
    /\ issued_progress' = IF Has(updates, "progress") THEN updates.progress
                          ELSE issued_progress
    /\ UNCHANGED fallbackGen

-----------------------------------------------------------------------------
(* Agents *)

\* what an agent's process() can answer besides raising: the number of its
\* quality criteria that the reply meets
PlannerOtherCriteria == 0 .. 4
WriterCriteria == 0 .. 4

\* PlannerAgent._evaluate_outline_quality: five criteria, one of them
\* len(chapter_outlines) >= 3; `others` counts the remaining four
OutlineQuality(n, others) ==
    ((others + (IF n >= 3 THEN 1 ELSE 0)) * 100) \div 5

\* WriterAgent._evaluate_content_quality: four criteria
ContentQuality(met) == (met * 100) \div 4

\* scores ReviewerAgent._calculate_quality_score can return for a parsed review
ReviewScores == {50, 70, 80}

\* a Reviewer that accepts from the final pass's gate on
NextActionAtPolishGate(score) ==
    IF score >= PolishGate THEN "accept" ELSE "revise"

\* ReviewerAgent._review_chapter: next_action of a parsed review
NextAction(score) == IF score >= ReviewAcceptGate THEN "accept" ELSE "revise"

\* a context without the earlier chapters
WriterContextNoHistory(num) ==
    [outline |-> outline, chapter_num |-> num, previous_chapters |-> <<>>]

\* agent_novel_generator.py 817-821: the context the loop hands to the Writer
WriterContext(num) ==
    [outline |-> outline, chapter_num |-> num, previous_chapters |-> chapters]

\* the chapters a context carried, as the history of a draft keeps them:
\* without their own history of received chapters
Received(chs) == [i \in DOMAIN chs |-> [chs[i] EXCEPT !.h_prev = <<>>]]

\* the Chapter a WriterAgent returns for a context.  What the draft is based
\* on is what the context offers: a chapter to rewrite when the context
\* holds one, the outline otherwise.  The h_ fields are history, not program
\* state: the previous chapters the Writer received, Writer and Editor
\* invocations of the per-chapter loop so far, whether the first Writer score
\* met the threshold, how many Writer scores fell below it, and whether the
\* final pass edited the chapter.  WriterAgent.process builds a new Chapter
\* (304-309) and names no revisions, so the field takes its default, the
\* empty list (models.py 184)
WriterDraft(ctx, prev, score) ==
    LET first == prev = <<>>
        old == IF first
               THEN [h_writer_calls |-> 0, h_loop_edits |-> 0,
                     h_first_ok |-> FALSE, h_low |-> 0]
               ELSE prev[1]
    IN  [chapter_num |-> ctx.chapter_num, author |-> "writer",
         revisions |-> <<>>,
         based_on |-> IF Has(ctx, "chapter") THEN ctx.chapter.author
                      ELSE "outline",
         h_prev |-> Received(ctx.previous_chapters),
         h_writer_calls |-> old.h_writer_calls + 1,
         h_loop_edits |-> old.h_loop_edits,
         h_first_ok |-> IF first THEN score >= AGENT_REVIEW_THRESHOLD
                        ELSE old.h_first_ok,
         h_low |-> old.h_low + (IF score < AGENT_REVIEW_THRESHOLD THEN 1 ELSE 0),
         h_final_edit |-> FALSE]

\* the Chapter an EditorAgent returns for `ch` inside the per-chapter loop:
\* a new Chapter (473-479) that takes ch's number and title and, again, the
\* default revisions
LoopEdit(ch) ==
    [ch EXCEPT !.author = "editor", !.revisions = <<>>,
               !.h_loop_edits = @ + 1]

\* the Chapter an EditorAgent returns for `ch` in the final pass
FinalEdit(ch) ==
    [ch EXCEPT !.author = "editor", !.revisions = <<>>,
               !.h_final_edit = TRUE]

-----------------------------------------------------------------------------
(* process_novel_generation and generate_novel *)

\* an exception that ends the background job without reaching an except clause
RaiseUncaught(err) ==
    /\ pending_error' = err
    /\ pc' = "aborted"

\* agent_novel_generator.py 804 and main.py 289: an exception leaves the try
\* block of generate_novel
Raise(err) ==
    /\ pending_error' = err
    /\ pc' = "gen_except"

\* main.py 261-269: the background task starts
MainBegin ==
    /\ pc = "created"
    /\ UpdateTaskInStorage([status |-> PLANNING, current_stage |-> "main_planning"])
    /\ pc' = "status_planning"
    /\ UNCHANGED <<redisUp, redisFlaky, request, outline, lowQuality, chapters,
                   chapter_num, iteration, chapter, polished_chapters,
                   review_idx, collaboration_log, calls, planner_reply,
                   pending_error, result, review_response, response, routeVars,
                   unitVars>>

\* agent_novel_generator.py 740
StatusPlanning ==
    /\ pc = "status_planning"
    /\ UpdateTaskStatus(PLANNING, 10, "planning", NONE)
    /\ pc' = "planner"
    /\ UNCHANGED <<redisUp, redisFlaky, request, tasks_db, outline, lowQuality,
                   chapters, chapter_num, iteration, chapter,
                   polished_chapters, review_idx, collaboration_log, calls,
                   planner_reply, pending_error, result, review_response,
                   response, routeVars, unitVars>>

\* a Planner that answers an unparseable reply with a default outline
OutlineParseFallback ==
    /\ outline' = request.chapter_count
    /\ lowQuality' = FALSE
    /\ collaboration_log' = Append(collaboration_log, "planner")
    /\ pc' = "status_writing"
    /\ UNCHANGED pending_error

\* agent_novel_generator.py 90-93: the reply is not JSON
OutlineParseError ==
    /\ Raise("outline_format_error")
    /\ UNCHANGED <<outline, lowQuality, collaboration_log>>

\* a quality gate that plans again
ReplanOnLowQuality(quality) ==
    IF quality < OutlineQualityGate THEN "status_planning" ELSE "status_writing"

\* agent_novel_generator.py 751-755: a low outline score only adds a status
\* update before the WRITING stage
AfterPlanning(quality) ==
    IF quality < OutlineQualityGate THEN "status_low_quality"
    ELSE "status_writing"

\* the sizes of the outlines the model lets the Planner's provider reply
OutlineBound == IF redisFlaky THEN MaxSinkOutlines ELSE MaxOutlines

\* agent_novel_generator.py 742-751: planner.process and the quality check.
\* _validate_and_enhance_outline numbers the outlines of the reply 1..n and
\* accepts any n.
PlannerProcess ==
    /\ pc = "planner"
    /\ calls' = Append(calls, <<"planner", 0, PLANNING>>)
    /\ \/ /\ planner_reply' = "error"
          /\ Raise("planner_error")
          /\ UNCHANGED <<outline, lowQuality, collaboration_log>>
       \/ /\ planner_reply' = "not_json"
          /\ OutlineParseError
       \/ /\ planner_reply' = "missing_field"
          /\ Raise("missing_field")
          /\ UNCHANGED <<outline, lowQuality, collaboration_log>>
       \/ \E n \in 0 .. OutlineBound, others \in PlannerOtherCriteria :
            /\ planner_reply' = "outline"
            /\ outline' = n
            /\ collaboration_log' = Append(collaboration_log, "planner")
            /\ lowQuality' = (OutlineQuality(n, others) < OutlineQualityGate)
            /\ pc' = AfterPlanning(OutlineQuality(n, others))
            /\ UNCHANGED pending_error
    /\ UNCHANGED <<redisUp, redisFlaky, request, tasks_db, redisTask,
                   fallbackMain, fallbackGen, chapters, chapter_num, iteration,
                   chapter, polished_chapters, review_idx, result, issued,
                   issued_progress, review_response, response, routeVars,
                   unitVars>>

\* a soft gate that sends the task back to the queue
StatusLowQualityRequeue ==
    /\ pc = "status_low_quality"
    /\ UpdateTaskStatus(PENDING, 15, "replanning", NONE)
    /\ pc' = "status_writing"
    /\ UNCHANGED <<redisUp, redisFlaky, request, tasks_db, outline, lowQuality,
                   chapters, chapter_num, iteration, chapter,
                   polished_chapters, review_idx, collaboration_log, calls,
                   planner_reply, pending_error, result, review_response,
                   response, routeVars, unitVars>>

\* agent_novel_generator.py 752
StatusLowQuality ==
    /\ pc = "status_low_quality"
    /\ UpdateTaskStatus(PLANNING, 15, "replanning", NONE)
    /\ pc' = "status_writing"
    /\ UNCHANGED <<redisUp, redisFlaky, request, tasks_db, outline, lowQuality,
                   chapters, chapter_num, iteration, chapter,
                   polished_chapters, review_idx, collaboration_log, calls,
                   planner_reply, pending_error, result, review_response,
                   response, routeVars, unitVars>>

\* agent_novel_generator.py 755-758
StatusWriting ==
    /\ pc = "status_writing"
    /\ UpdateTaskStatus(WRITING, 25, "writing", NONE)
    /\ chapters' = <<>>
    /\ chapter_num' = 1
    /\ pc' = "loop_head"
    /\ UNCHANGED <<redisUp, redisFlaky, request, tasks_db, outline, lowQuality,
                   iteration, chapter, polished_chapters, review_idx,
                   collaboration_log, calls, planner_reply, pending_error,
                   result, review_response, response, routeVars, unitVars>>

\* a progress that counts the chapters from zero
ChapterProgressFromZero(num, n) == ((num - 1) * 40) \div n

\* agent_novel_generator.py 760
ChapterProgress(num, n) == 25 + ((num - 1) * 40) \div n

\* a status update whose failure is raised to generate_novel
StatusChapterChecked ==
    /\ pc = "loop_head"
    /\ chapter_num <= outline
    /\ UpdateTaskStatus(WRITING, ChapterProgress(chapter_num, outline),
                        "chapter", NONE)
    /\ IF Has(redisTask', "progress") /\ redisTask'.status = WRITING
       THEN /\ iteration' = 0
            /\ chapter' = <<>>
            /\ pc' = "writer"
            /\ UNCHANGED pending_error
       ELSE /\ Raise("status_update_failed")
            /\ UNCHANGED <<iteration, chapter>>
    /\ UNCHANGED <<redisUp, redisFlaky, request, tasks_db, outline, lowQuality,
                   chapters, chapter_num, polished_chapters, review_idx,
                   collaboration_log, calls, planner_reply, result,
                   review_response, response, routeVars, unitVars>>

\* agent_novel_generator.py 759-764 and 813-815: the next chapter starts
StatusChapter ==
    /\ pc = "loop_head"
    /\ chapter_num <= outline
    /\ UpdateTaskStatus(WRITING, ChapterProgress(chapter_num, outline),
                        "chapter", NONE)
    /\ iteration' = 0
    /\ chapter' = <<>>
    /\ pc' = "writer"
    /\ UNCHANGED <<redisUp, redisFlaky, request, tasks_db, outline, lowQuality,
                   chapters, chapter_num, polished_chapters, review_idx,
                   collaboration_log, calls, planner_reply, pending_error,
                   result, review_response, response, routeVars, unitVars>>

\* the loop's gate taken from the final pass instead of the settings
AcceptsAtPolishGate(score) == score >= PolishGate

\* agent_novel_generator.py 831: the Writer's draft is good enough
Accepts(score) == score >= AGENT_REVIEW_THRESHOLD

\* an Editor call after every Writer draft that fell short
EditsEveryIteration(i) == i < AGENT_MAX_ITERATIONS

\* agent_novel_generator.py 835: an iteration is left, so the Editor is called
EditsNext(i) == i < AGENT_MAX_ITERATIONS - 1

\* a loop that runs one iteration too many
LoopOffByOne(i) == i < AGENT_MAX_ITERATIONS

\* agent_novel_generator.py 815: range(max_iterations) has a value after i
LoopContinues(i) == i + 1 < AGENT_MAX_ITERATIONS

\* agent_novel_generator.py 849 and 770: the loop's chapter is returned and
\* appended, and the for loop of generate_novel moves on
ReturnChapter(ch) ==
    /\ chapters' = Append(chapters, ch)
    /\ chapter_num' = chapter_num + 1
    /\ pc' = "loop_head"
    /\ UNCHANGED iteration

\* agent_novel_generator.py 815-835: one Writer call of the per-chapter loop.
\* The Writer's context is the outline, the chapter number and the earlier
\* chapters: the draft does not depend on the loop's current `chapter`.
WriterProcess ==
    /\ pc = "writer"
    /\ calls' = Append(calls, <<"writer", chapter_num, WRITING>>)
    /\ \/ /\ Raise("writer_error")
          /\ UNCHANGED <<chapters, chapter_num, iteration, chapter,
                         collaboration_log>>
       \/ \E met \in WriterCriteria :
            LET score == ContentQuality(met)
                draft == WriterDraft(WriterContext(chapter_num), chapter, score)
            IN  /\ chapter' = <<draft>>
                /\ collaboration_log' = Append(collaboration_log, "writer")
                /\ UNCHANGED pending_error
                /\ IF Accepts(score)
                   THEN ReturnChapter(draft)
                   ELSE IF EditsNext(iteration)
                   THEN /\ pc' = "editor"
                        /\ UNCHANGED <<chapters, chapter_num, iteration>>
                   ELSE IF LoopContinues(iteration)
                   THEN /\ iteration' = iteration + 1
                        /\ pc' = "writer"
                        /\ UNCHANGED <<chapters, chapter_num>>
                   ELSE ReturnChapter(draft)
    /\ UNCHANGED <<redisUp, redisFlaky, request, tasks_db, redisTask,
                   fallbackMain, fallbackGen, outline, lowQuality,
                   polished_chapters, review_idx, planner_reply, result,
                   issued, issued_progress, review_response, response,
                   routeVars, unitVars>>

\* agent_novel_generator.py 836-847: the Editor call of the per-chapter loop
EditorProcess ==
    /\ pc = "editor"
    /\ calls' = Append(calls, <<"editor", chapter_num, WRITING>>)
    /\ \/ /\ Raise("editor_error")
          /\ UNCHANGED <<chapters, chapter_num, iteration, chapter,
                         collaboration_log>>
       \/ /\ chapter' = <<LoopEdit(chapter[1])>>
          /\ collaboration_log' = Append(collaboration_log, "editor")
          /\ UNCHANGED pending_error
          /\ IF LoopContinues(iteration)
             THEN /\ iteration' = iteration + 1
                  /\ pc' = "writer"
                  /\ UNCHANGED <<chapters, chapter_num>>
             ELSE ReturnChapter(LoopEdit(chapter[1]))
    /\ UNCHANGED <<redisUp, redisFlaky, request, tasks_db, redisTask,
                   fallbackMain, fallbackGen, outline, lowQuality,
                   polished_chapters, review_idx, planner_reply, result,
                   issued, issued_progress, review_response, response,
                   routeVars, unitVars>>

\* a loop that leaves the last chapter out
LoopEndsEarly(num, n) == num >= n

\* agent_novel_generator.py 759: range(1, n + 1) has no further chapter_num
LoopExhausted(num, n) == num > n

\* agent_novel_generator.py 759, 772 and 854: every chapter is drafted
StatusReviewing ==
    /\ pc = "loop_head"
    /\ LoopExhausted(chapter_num, outline)
    /\ UpdateTaskStatus(REVIEWING, 80, "reviewing", NONE)
    /\ polished_chapters' = <<>>
    /\ review_idx' = 1
    /\ pc' = "reviewer"
    /\ UNCHANGED <<redisUp, redisFlaky, request, tasks_db, outline, lowQuality,
                   chapters, chapter_num, iteration, chapter,
                   collaboration_log, calls, planner_reply, pending_error,
                   result, review_response, response, routeVars, unitVars>>

\* a gate that looks at the score alone
PolishBelowGate(score, action) == score < PolishGate

\* agent_novel_generator.py 870: the final pass hands the chapter to the Editor
NeedsPolish(score, action) == score < PolishGate /\ action = "revise"

\* a fallback that lets the chapter pass
ReviewParseAccept ==
    [reply |-> "not_json", score |-> ReviewFallbackScore, action |-> "accept"]

\* agent_novel_generator.py 643-649: the reply is not JSON
ReviewParseFallback ==
    [reply |-> "not_json", score |-> ReviewFallbackScore, action |-> "revise"]

\* what ReviewerAgent._review_chapter returns when it does not raise: a parsed
\* review, or the fallback for a reply that is not JSON
ReviewVerdicts ==
    {[reply |-> "parsed", score |-> sc, action |-> NextAction(sc)] :
        sc \in ReviewScores}
    \cup {ReviewParseFallback}

\* agent_novel_generator.py 856-870 and 880: the Reviewer call for one chapter
ReviewerProcess ==
    /\ pc = "reviewer"
    /\ review_idx <= Len(chapters)
    /\ calls' = Append(calls, <<"reviewer", chapters[review_idx].chapter_num,
                             REVIEWING>>)
    /\ \/ /\ Raise("reviewer_error")
          /\ review_response' = [reply |-> "error"]
          /\ UNCHANGED <<polished_chapters, review_idx, collaboration_log>>
       \/ \E v \in ReviewVerdicts :
            /\ review_response' = v
            /\ collaboration_log' = Append(collaboration_log, "reviewer")
            /\ UNCHANGED pending_error
            /\ IF NeedsPolish(v.score, v.action)
               THEN /\ pc' = "final_editor"
                    /\ UNCHANGED <<polished_chapters, review_idx>>
               ELSE /\ polished_chapters' =
                           Append(polished_chapters, chapters[review_idx])
                    /\ review_idx' = review_idx + 1
                    /\ pc' = "reviewer"
    /\ UNCHANGED <<redisUp, redisFlaky, request, tasks_db, redisTask,
                   fallbackMain, fallbackGen, outline, lowQuality, chapters,
                   chapter_num, iteration, chapter, planner_reply, result,
                   issued, issued_progress, response, routeVars, unitVars>>

\* agent_novel_generator.py 871-878: the Editor call of the final pass; it
\* appends no AgentMessage
FinalEditorProcess ==
    /\ pc = "final_editor"
    /\ calls' = Append(calls, <<"editor", chapters[review_idx].chapter_num,
                             REVIEWING>>)
    /\ \/ /\ Raise("editor_error")
          /\ review_response' = [reply |-> NONE]
          /\ UNCHANGED <<polished_chapters, review_idx>>
       \/ /\ polished_chapters' =
                Append(polished_chapters, FinalEdit(chapters[review_idx]))
          /\ review_idx' = review_idx + 1
          /\ pc' = "reviewer"
          /\ UNCHANGED <<pending_error, review_response>>
    /\ UNCHANGED <<redisUp, redisFlaky, request, tasks_db, redisTask,
                   fallbackMain, fallbackGen, outline, lowQuality, chapters,
                   chapter_num, iteration, chapter, collaboration_log,
                   planner_reply, result, issued, issued_progress, response,
                   routeVars, unitVars>>

\* statistics that take 0 as the average of no chapters
AverageOfNone(final_chapters) == TRUE

\* agent_novel_generator.py 781: the division by len(final_chapters) has a
\* result
AverageDefined(final_chapters) == Len(final_chapters) # 0

\* agent_novel_generator.py 882 and 775-798: the final pass returns; the
\* statistics and the NovelResult; average_chapter_words divides by
\* len(final_chapters)
BuildResult ==
    /\ pc = "reviewer"
    /\ review_idx > Len(chapters)
    /\ review_response' = [reply |-> NONE]
    /\ IF ~AverageDefined(polished_chapters)
       THEN Raise("division_by_zero") /\ UNCHANGED result
       ELSE /\ result' = <<[chapters |-> polished_chapters,
                            collaboration_messages |-> Len(collaboration_log)]>>
            /\ pc' = "status_completed"
            /\ UNCHANGED pending_error
    /\ UNCHANGED <<redisUp, redisFlaky, request, tasks_db, redisTask,
                   fallbackMain, fallbackGen, outline, lowQuality, chapters,
                   chapter_num, iteration, chapter, polished_chapters,
                   review_idx, collaboration_log, calls, planner_reply, issued,
                   issued_progress, response, routeVars, unitVars>>

\* agent_novel_generator.py 800-802
StatusCompleted ==
    /\ pc = "status_completed"
    /\ UpdateTaskStatus(COMPLETED, 100, "completed", NONE)
    /\ pc' = "main_store"
    /\ UNCHANGED <<redisUp, redisFlaky, request, tasks_db, outline, lowQuality,
                   chapters, chapter_num, iteration, chapter,
                   polished_chapters, review_idx, collaboration_log, calls,
                   planner_reply, pending_error, result, review_response,
                   response, routeVars, unitVars>>

\* agent_novel_generator.py 804-807: progress takes its default 0, no message
GenExcept ==
    /\ pc = "gen_except"
    /\ UpdateTaskStatus(FAILED, 0, NONE, pending_error)
    /\ pc' = "main_except"
    /\ UNCHANGED <<redisUp, redisFlaky, request, tasks_db, outline, lowQuality,
                   chapters, chapter_num, iteration, chapter,
                   polished_chapters, review_idx, collaboration_log, calls,
                   planner_reply, pending_error, result, review_response,
                   response, routeVars, unitVars>>

\* main.py 272-287: generate_novel returned
MainStoreResult ==
    /\ pc = "main_store"
    /\ UpdateTaskInStorage([status |-> COMPLETED, progress |-> 100,
                            current_stage |-> "main_completed",
                            result |-> result])
    /\ pc' = "done"
    /\ UNCHANGED <<redisUp, redisFlaky, request, outline, lowQuality, chapters,
                   chapter_num, iteration, chapter, polished_chapters,
                   review_idx, collaboration_log, calls, planner_reply,
                   pending_error, result, review_response, response, routeVars,
                   unitVars>>

\* a failure record that keeps the chapters drafted so far
PartialFailureUpdates(err) ==
    [status |-> FAILED, error |-> err,
     result |-> <<[chapters |-> chapters,
                   collaboration_messages |-> Len(collaboration_log)]>>]

\* main.py 291-295: what the except clause stores
FailureUpdates(err) == [status |-> FAILED, error |-> err]

\* main.py 289-295: generate_novel raised
MainExcept ==
    /\ pc = "main_except"
    /\ UpdateTaskInStorage(FailureUpdates(pending_error))
    /\ pc' = "done"
    /\ UNCHANGED <<redisUp, redisFlaky, request, outline, lowQuality, chapters,
                   chapter_num, iteration, chapter, polished_chapters,
                   review_idx, collaboration_log, calls, planner_reply,
                   pending_error, result, review_response, response, routeVars,
                   unitVars>>

\* main.py 344-368: get_novel_result, which a client may call at any time
ResultAnswer(task_data) ==
    IF DOMAIN task_data = {} THEN [code |-> 404, result |-> <<>>]
    ELSE IF task_data.status # COMPLETED THEN [code |-> 400, result |-> <<>>]
    ELSE IF ~Has(task_data, "result") \/ task_data.result = <<>>
         THEN [code |-> 404, result |-> <<>>]
    ELSE [code |-> 200, result |-> task_data.result]

GetNovelResult ==
    /\ \E g \in OpOutcomes :
         LET task_data == IF DOMAIN tasks_db = {}
                          THEN (IF g THEN MainCache ELSE NoTask)
                          ELSE tasks_db
         IN  response' = ResultAnswer(task_data)
    /\ UNCHANGED <<redisUp, redisFlaky, request, pc, tasks_db, redisTask,
                   fallbackMain, fallbackGen, outline, lowQuality, chapters,
                   chapter_num, iteration, chapter, polished_chapters,
                   review_idx, collaboration_log, calls, planner_reply,
                   pending_error, result, issued, issued_progress,
                   review_response, routeVars, unitVars>>

-----------------------------------------------------------------------------
(* The orchestration of one task *)

Requests ==
    {[chapter_count |-> c] : c \in MinChapterCount .. MaxChapterCount}

RouteIdle ==
    /\ registry = <<>>
    /\ rpc = "idle"
    /\ providers = <<>>
    /\ fb_idx = 0
    /\ attempts = <<>>
    /\ failures = <<>>
    /\ last_error = NONE
    /\ outcome = [kind |-> NONE]
    /\ tasks = <<>>
    /\ output = NoTask

\* generate_chapters_batch has not been called
BatchIdle ==
    /\ chapter_outlines = <<>>
    /\ batch_outline = NoTask
    /\ batch_i = 0
    /\ batch_tasks = <<>>
    /\ all_results = <<>>
    /\ batch_out = [kind |-> NONE]

\* no lock: the key is absent
NoLock == [identifier |-> 0, expires_at |-> 0]

\* no lock was asked for
LockIdle ==
    /\ lock_clock = 0
    /\ lock_entry = NoLock
    /\ lock_calls = [t \in 1 .. MaxCallers |->
                         [pc |-> "idle", identifier |-> 0, result |-> NONE]]
    /\ lock_held = [t \in 1 .. MaxCallers |-> NoLock]
    /\ lock_next = 0

\* the threads of the worker pool that run the check_rate_limit dependency
Callers == 1 .. MaxCallers

\* a thread outside check_rate_limit
IdleCall == [pc |-> "idle", now |-> 0, current |-> 0, user_requests |-> <<>>]

\* no request has reached the rate limiter
RateIdle ==
    /\ rate_clock = 0
    /\ rate_key = NoTask
    /\ rate_limit_cache = <<>>
    /\ rate_calls = [t \in Callers |-> IdleCall]
    /\ rate_results = <<>>

\* no route_request was made; a manager without provider objects, never
\* asked for an estimate
SideIdle ==
    /\ route_call = [task_type |-> NONE]
    /\ provider_of = NoTask
    /\ cost_log = <<>>
    /\ RateIdle
    /\ status_update = [made |-> 0, next |-> "status"]
    /\ seen = NoTask

\* no provider call, review or request is under way
UnitsIdle ==
    /\ llm_fn = NONE
    /\ llm_pc = "idle"
    /\ attempt_number = 0
    /\ attempt_log = <<>>
    /\ slept = <<>>
    /\ llm_result = [kind |-> NONE]
    /\ review_data = NoTask
    /\ quality_score = <<>>
    /\ raw_request = NoTask
    /\ validation = NONE
    /\ SideIdle
    /\ BatchIdle
    /\ LockIdle

\* main.py 203-230: create_novel has stored the task and queued the
\* background job; the generator's own cache holds the task only when both
\* caches reach the same Redis server
TaskCreated ==
    /\ request \in Requests
    /\ pc = "created"
    /\ tasks_db = NewTask
    /\ redisTask = IF redisUp THEN NewTask ELSE NoTask
    /\ fallbackMain = IF redisUp THEN NoTask ELSE NewTask
    /\ fallbackGen = NoTask
    /\ outline = -1
    /\ lowQuality = FALSE
    /\ chapters = <<>>
    /\ chapter_num = 0
    /\ iteration = 0
    /\ chapter = <<>>
    /\ polished_chapters = <<>>
    /\ review_idx = 0
    /\ collaboration_log = <<>>
    /\ calls = <<>>
    /\ planner_reply = NONE
    /\ pending_error = NONE
    /\ result = <<>>
    /\ issued = PENDING
    /\ issued_progress = 0
    /\ review_response = [reply |-> NONE]
    /\ response = [code |-> 0, result |-> <<>>]

\* a Redis server that is unreachable from the start, or one that answers
\* every operation
Init ==
    /\ redisUp \in BOOLEAN
    /\ redisFlaky = FALSE
    /\ TaskCreated
    /\ RouteIdle
    /\ UnitsIdle

\* redis_cache.py 153-163: a Redis server whose operations can fail at any
\* time after the caches connected
InitSink ==
    /\ redisUp = TRUE
    /\ redisFlaky = TRUE
    /\ TaskCreated
    /\ RouteIdle
    /\ UnitsIdle

\* the steps of the background job
TaskStep ==
    \/ MainBegin
    \/ StatusPlanning
    \/ PlannerProcess
    \/ StatusLowQuality
    \/ StatusWriting
    \/ StatusChapter
    \/ WriterProcess
    \/ EditorProcess
    \/ StatusReviewing
    \/ ReviewerProcess
    \/ FinalEditorProcess
    \/ BuildResult
    \/ StatusCompleted
    \/ GenExcept
    \/ MainStoreResult
    \/ MainExcept

Next == TaskStep \/ GetNovelResult

Spec == Init /\ [][Next]_vars

SpecSink == InitSink /\ [][Next]_vars

\* every provider call returns or raises, and the event loop keeps running
\* the background job
FairSpec == Spec /\ WF_vars(TaskStep)

-----------------------------------------------------------------------------
(* The provider routing layer: MultiModelManager *)

\* names a caller may put in a provider list; the registry holds some of them
ProviderNames == {"claude", "gpt-4", "qwen"}

Range(seq) == {seq[i] : i \in DOMAIN seq}

\* lists of at most MaxProviders names, each name at most once
ProviderLists ==
    {l \in UNION {[1 .. n -> ProviderNames] : n \in 0 .. MaxProviders} :
        \A i, j \in DOMAIN l : i # j => l[i] # l[j]}

Registered(name) == name \in Range(registry)

\* llm_providers.py 443-444 and 466-467: an empty list means the registered
\* providers, in registration order (at most `cap` of them)
Candidates(list, cap) ==
    IF list = <<>>
    THEN SubSeq(registry, 1, IF Len(registry) < cap THEN Len(registry) ELSE cap)
    ELSE list

\* llm_providers.py 441-446
FallbackStart ==
    /\ rpc = "idle"
    /\ \E list \in ProviderLists :
          providers' = Candidates(list, Len(registry))
    /\ fb_idx' = 1
    /\ last_error' = NONE
    /\ outcome' = [kind |-> "running"]
    /\ rpc' = "fallback"
    /\ UNCHANGED <<redisUp, redisFlaky, orchVars, unitVars, registry, attempts, failures,
                   tasks, output>>

\* llm_providers.py 448-450: a name without a provider is passed over
FallbackSkip ==
    /\ rpc = "fallback"
    /\ fb_idx <= Len(providers)
    /\ ~Registered(providers[fb_idx])
    /\ fb_idx' = fb_idx + 1
    /\ UNCHANGED <<redisUp, redisFlaky, orchVars, unitVars, registry, rpc, providers,
                   attempts, failures, last_error, outcome, tasks, output>>

\* llm_providers.py 452-460: the candidate's generate returns or raises
FallbackTry ==
    /\ rpc = "fallback"
    /\ fb_idx <= Len(providers)
    /\ Registered(providers[fb_idx])
    /\ attempts' = Append(attempts, providers[fb_idx])
    /\ \/ /\ outcome' = [kind |-> "returned", value |-> providers[fb_idx]]
          /\ rpc' = "fallback_done"
          /\ UNCHANGED <<fb_idx, failures, last_error>>
       \/ /\ failures' = Append(failures, providers[fb_idx])
          /\ last_error' = providers[fb_idx]
          /\ fb_idx' = fb_idx + 1
          /\ UNCHANGED <<outcome, rpc>>
    /\ UNCHANGED <<redisUp, redisFlaky, orchVars, unitVars, registry, providers, tasks,
                   output>>

\* an error that keeps the first failure instead of the last
FirstErrorOnly(last, fails) ==
    IF fails = <<>> THEN <<>> ELSE <<fails[1]>>

\* llm_providers.py 462: the failures the raised exception carries in its
\* message, "All providers failed. Last error: {last_error}"
AllFailedError(last, fails) ==
    IF last = NONE THEN <<>> ELSE <<last>>

\* llm_providers.py 447 and 462: the list is used up
FallbackRaise ==
    /\ rpc = "fallback"
    /\ fb_idx > Len(providers)
    /\ outcome' = [kind |-> "raised",
                   carried |-> AllFailedError(last_error, failures)]
    /\ rpc' = "fallback_done"
    /\ UNCHANGED <<redisUp, redisFlaky, orchVars, unitVars, registry, providers, fb_idx,
                   attempts, failures, last_error, tasks, output>>

\* llm_providers.py 469-476: one asyncio task per listed name with a provider
CreateTasks(list) ==
    LET F[i \in 0 .. Len(list)] ==
            IF i = 0 THEN <<>>
            ELSE IF Registered(list[i])
                 THEN Append(F[i - 1], [name |-> list[i], state |-> "pending"])
                 ELSE F[i - 1]
    IN  F[Len(list)]

\* llm_providers.py 464-476
ParallelStart ==
    /\ rpc = "idle"
    /\ \E list \in ProviderLists :
          /\ providers' = Candidates(list, ParallelDefaultCap)
          /\ tasks' = CreateTasks(Candidates(list, ParallelDefaultCap))
    /\ outcome' = [kind |-> "running"]
    /\ rpc' = "parallel"
    /\ UNCHANGED <<redisUp, redisFlaky, orchVars, unitVars, registry, fb_idx, attempts,
                   failures, last_error, output>>

\* llm_providers.py 489-496: the tasks run concurrently; each provider's
\* generate returns or raises on its own, in any order
ParallelFinish ==
    /\ rpc = "parallel"
    /\ \E i \in DOMAIN tasks :
          /\ tasks[i].state = "pending"
          /\ attempts' = Append(attempts, tasks[i].name)
          /\ \/ /\ tasks' = [tasks EXCEPT ![i].state = "value"]
                /\ UNCHANGED failures
             \/ /\ tasks' = [tasks EXCEPT ![i].state = "error"]
                /\ failures' = Append(failures, tasks[i].name)
    /\ UNCHANGED <<redisUp, redisFlaky, orchVars, unitVars, registry, rpc, providers,
                   fb_idx, last_error, outcome, output>>

\* llm_providers.py 480-485: zip(providers, results) pairs the k-th listed
\* name with the k-th task's result; a later pair replaces an earlier one
\* under the same key
ZipOutput(list, results) ==
    LET n == IF Len(list) < Len(results) THEN Len(list) ELSE Len(results)
        Last(name) == CHOOSE k \in 1 .. n :
                          /\ list[k] = name
                          /\ \A j \in 1 .. n : list[j] = name => j <= k
    IN  [name \in {list[k] : k \in 1 .. n} |->
            [kind |-> results[Last(name)].state, by |-> results[Last(name)].name]]

\* llm_providers.py 478-487: gather(return_exceptions=True) waits for every
\* task and hands exceptions back as values
ParallelGather ==
    /\ rpc = "parallel"
    /\ \A i \in DOMAIN tasks : tasks[i].state # "pending"
    /\ output' = ZipOutput(providers, tasks)
    /\ outcome' = [kind |-> "returned"]
    /\ rpc' = "parallel_done"
    /\ UNCHANGED <<redisUp, redisFlaky, orchVars, unitVars, registry, providers, fb_idx,
                   attempts, failures, last_error, tasks>>

\* llm_providers.py 428-433: the providers registered so far, in order
Registries ==
    {l \in UNION {[1 .. n -> ProviderNames] : n \in 0 .. Cardinality(ProviderNames)} :
        \A i, j \in DOMAIN l : i # j => l[i] # l[j]}

\* no task is under way
OrchIdle ==
    /\ request \in Requests
    /\ pc = "idle"
    /\ tasks_db = NoTask
    /\ redisTask = NoTask
    /\ fallbackMain = NoTask
    /\ fallbackGen = NoTask
    /\ outline = -1
    /\ lowQuality = FALSE
    /\ chapters = <<>>
    /\ chapter_num = 0
    /\ iteration = 0
    /\ chapter = <<>>
    /\ polished_chapters = <<>>
    /\ review_idx = 0
    /\ collaboration_log = <<>>
    /\ calls = <<>>
    /\ planner_reply = NONE
    /\ pending_error = NONE
    /\ result = <<>>
    /\ issued = PENDING
    /\ issued_progress = 0
    /\ review_response = [reply |-> NONE]
    /\ response = [code |-> 0, result |-> <<>>]

\* no task is under way; a manager with some registered providers
InitRoute ==
    /\ redisUp = FALSE
    /\ redisFlaky = FALSE
    /\ OrchIdle
    /\ registry \in Registries
    /\ rpc = "idle"
    /\ providers = <<>>
    /\ fb_idx = 0
    /\ attempts = <<>>
    /\ failures = <<>>
    /\ last_error = NONE
    /\ outcome = [kind |-> NONE]
    /\ tasks = <<>>
    /\ output = NoTask
    /\ UnitsIdle

NextRoute ==
    \/ FallbackStart
    \/ FallbackSkip
    \/ FallbackTry
    \/ FallbackRaise
    \/ ParallelStart
    \/ ParallelFinish
    \/ ParallelGather

SpecRoute == InitRoute /\ [][NextRoute]_vars

-----------------------------------------------------------------------------
(* The retry wrapper around the provider calls: AIAgent.call_llm,           *)
(* OpenAIProvider.generate and NovelGenerator.call_openai are decorated     *)
(* with @retry(stop=stop_after_attempt(3),                                  *)
(*             wait=wait_exponential(multiplier=1, min=4, max=10))          *)

RetryWrapped == {"call_llm", "generate", "call_openai"}

\* what one attempt at the remote provider can raise
TransientErrors == {"timeout", "rate_limit"}
PermanentErrors == {"auth", "bad_request"}
ProviderErrors == TransientErrors \cup PermanentErrors

\* a wrapper told to retry the transient errors only
RetryTransientOnly(err) == err \in TransientErrors

\* the decorator names no `retry` condition: every exception is retried
ShouldRetry(err) == err \in ProviderErrors

\* a wrapper that gives up one attempt late
StopOneLate(n) == n > StopAfterAttempt

\* stop_after_attempt(3)
ShouldStop(n) == n >= StopAfterAttempt

RECURSIVE Pow2(_)
Pow2(n) == IF n <= 0 THEN 1 ELSE 2 * Pow2(n - 1)

\* wait_exponential(multiplier=1, min=4, max=10) after attempt n
WaitExponential(n) ==
    LET exp == WaitMultiplier * Pow2(n - 1)
        capped == IF exp < WaitMax THEN exp ELSE WaitMax
    IN  IF capped > WaitMin THEN capped ELSE WaitMin

\* a caller enters one of the wrapped functions
LLMCall ==
    /\ llm_pc = "idle"
    /\ llm_fn' \in RetryWrapped
    /\ attempt_number' = 1
    /\ llm_pc' = "attempting"
    /\ UNCHANGED <<baseVars, attempt_log, slept, llm_result, scoreVars,
                   requestVars, sideVars>>

\* one attempt: openai.ChatCompletion.acreate returns or raises.  Every
\* except clause of the wrapped functions re-raises; OpenAIProvider.generate
\* sleeps 10 s first when the error is a RateLimitError.
LLMAttempt ==
    /\ llm_pc = "attempting"
    /\ \E r \in {"ok"} \cup ProviderErrors :
          /\ attempt_log' = Append(attempt_log, r)
          /\ slept' = IF llm_fn = "generate" /\ r = "rate_limit"
                      THEN Append(slept, RateLimitSleep) ELSE slept
          /\ IF r = "ok"
             THEN /\ llm_pc' = "returned"
                  /\ llm_result' = [kind |-> "returned",
                                    attempt |-> attempt_number]
             ELSE IF ~ShouldRetry(r)
             THEN /\ llm_pc' = "raised"
                  /\ llm_result' = [kind |-> "raised", error |-> r]
             ELSE IF ShouldStop(attempt_number)
             THEN /\ llm_pc' = "raised"
                  /\ llm_result' = [kind |-> "raised", error |-> "RetryError"]
             ELSE /\ llm_pc' = "waiting"
                  /\ UNCHANGED llm_result
    /\ UNCHANGED <<baseVars, llm_fn, attempt_number, scoreVars, requestVars,
                   sideVars>>

\* the wrapper sleeps and starts the next attempt
LLMWait ==
    /\ llm_pc = "waiting"
    /\ slept' = Append(slept, WaitExponential(attempt_number))
    /\ attempt_number' = attempt_number + 1
    /\ llm_pc' = "attempting"
    /\ UNCHANGED <<baseVars, llm_fn, attempt_log, llm_result, scoreVars,
                   requestVars, sideVars>>

InitLLM ==
    /\ redisUp = FALSE
    /\ redisFlaky = FALSE
    /\ OrchIdle
    /\ RouteIdle
    /\ UnitsIdle

NextLLM == LLMCall \/ LLMAttempt \/ LLMWait

SpecLLM == InitLLM /\ [][NextLLM]_vars

-----------------------------------------------------------------------------
(* ReviewerAgent._calculate_quality_score.  The score is a quotient of      *)
(* integers here, [num, den], so that no rounding enters the comparison.    *)

\* axes of a review (three of the prompt's eight) and the values a provider
\* may put under them
AxisNames == {"completeness", "pacing", "readability"}
AxisScores == {-1, 0, 1, 3, 5, 6}
OverallScores == {0, 3, 5, 7}

\* the parsed replies: a dict with or without "scores" and "overall_score"
ReviewDicts ==
    LET scoreDicts == UNION {[axes -> AxisScores] : axes \in SUBSET AxisNames}
        withScores == {[scores |-> sd] : sd \in scoreDicts} \cup {NoTask}
        withOverall == {[overall_score |-> o] : o \in OverallScores} \cup {NoTask}
    IN  {a @@ b : a \in withScores, b \in withOverall}

RECURSIVE SumValues(_)
SumValues(d) ==
    IF DOMAIN d = {} THEN 0
    ELSE LET k == CHOOSE x \in DOMAIN d : TRUE
         IN  d[k] + SumValues([x \in DOMAIN d \ {k} |-> d[x]])

\* agent_novel_generator.py 703-713
CalculateQualityScore(data) ==
    IF Has(data, "scores")
    THEN LET total_score == SumValues(data.scores)
             max_score == Cardinality(DOMAIN data.scores) * MaxAxisScore
         IN  IF max_score > 0 THEN [num |-> total_score, den |-> max_score]
             ELSE [num |-> 0, den |-> 1]
    ELSE IF Has(data, "overall_score")
    THEN [num |-> data.overall_score, den |-> MaxAxisScore]
    ELSE [num |-> 3, den |-> 5]

\* agent_novel_generator.py 626: the Reviewer scores the parsed reply
ReviewScore ==
    /\ quality_score = <<>>
    /\ quality_score' = <<CalculateQualityScore(review_data)>>
    /\ UNCHANGED <<baseVars, llmVars, review_data, requestVars, sideVars>>

InitScore ==
    /\ redisUp = FALSE
    /\ redisFlaky = FALSE
    /\ OrchIdle
    /\ RouteIdle
    /\ llm_fn = NONE
    /\ llm_pc = "idle"
    /\ attempt_number = 0
    /\ attempt_log = <<>>
    /\ slept = <<>>
    /\ llm_result = [kind |-> NONE]
    /\ review_data \in ReviewDicts
    /\ quality_score = <<>>
    /\ raw_request = NoTask
    /\ validation = NONE
    /\ SideIdle
    /\ BatchIdle
    /\ LockIdle

SpecScore == InitScore /\ [][ReviewScore]_vars

-----------------------------------------------------------------------------
(* NovelRequest: the validation of a request body *)

\* models.py 48-57: the fields in the order the class declares them
FieldOrder ==
    <<"theme", "genre", "style", "word_count", "chapter_count",
      "target_audience", "special_requirements", "reference_works">>

\* the `values` a validator of `field` is handed: the fields declared, and
\* so validated, before it
ValuesSeenBy(field, body) ==
    LET at == CHOOSE i \in DOMAIN FieldOrder : FieldOrder[i] = field
        before == {FieldOrder[i] : i \in 1 .. at - 1}
    IN  [k \in before \cap DOMAIN body |-> body[k]]

\* models.py 64-71
ValidateWordCount(v, values) ==
    LET count == IF Has(values, "chapter_count") THEN values.chapter_count
                 ELSE DefaultChapterCount
    IN  v \div count >= MinWordsPerChapter

\* models.py 51-52 and 64-71: the Field bounds and the validator
ValidateRequest(body) ==
    IF /\ body.word_count \in MinWordCount .. MaxWordCount
       /\ body.chapter_count \in MinChapterCount .. ChapterCountLimit
       /\ ValidateWordCount(body.word_count, ValuesSeenBy("word_count", body))
    THEN "accepted" ELSE "rejected"

\* the request bodies of the model
WordCountSamples == {4999, 5000, 5999, 6000, 30000, 100000, 100001}
RequestBodies ==
    {[word_count |-> w, chapter_count |-> c] :
        w \in WordCountSamples,
        c \in MinChapterCount - 1 .. ChapterCountLimit + 1}

\* main.py 203: FastAPI builds the NovelRequest from the body
ParseRequest ==
    /\ validation = NONE
    /\ validation' = ValidateRequest(raw_request)
    /\ UNCHANGED <<baseVars, llmVars, scoreVars, raw_request, sideVars>>

InitRequest ==
    /\ redisUp = FALSE
    /\ redisFlaky = FALSE
    /\ OrchIdle
    /\ RouteIdle
    /\ llm_fn = NONE
    /\ llm_pc = "idle"
    /\ attempt_number = 0
    /\ attempt_log = <<>>
    /\ slept = <<>>
    /\ llm_result = [kind |-> NONE]
    /\ review_data = NoTask
    /\ quality_score = <<>>
    /\ raw_request \in RequestBodies
    /\ validation = NONE
    /\ SideIdle
    /\ BatchIdle
    /\ LockIdle

SpecRequest == InitRequest /\ [][ParseRequest]_vars

-----------------------------------------------------------------------------
(* Properties of the orchestration *)

Terminal == {COMPLETED, FAILED}

\* the agent invocations of one role for one chapter in one stage
CallsOf(role, num, stage) ==
    {i \in DOMAIN calls : calls[i] = <<role, num, stage>>}

Roles(rs) == {i \in DOMAIN calls : calls[i][1] \in rs}

\* the drafts the per-chapter loops hold: the returned ones and the current one
Drafts == {chapters[i] : i \in DOMAIN chapters} \cup {chapter[i] : i \in DOMAIN chapter}

\* C1: a generate_novel run that returns a result returns exactly
\* request.chapter_count chapters, numbered 1, 2, ..., chapter_count in order.
C1_ExactChapterCount ==
    result # <<>> =>
        /\ Len(result[1].chapters) = request.chapter_count
        /\ \A i \in DOMAIN result[1].chapters :
              result[1].chapters[i].chapter_num = i

\* C2: the Writer is invoked at most max_iterations times for one chapter, and
\* a chapter whose max_iterations Writer scores all fell below the threshold
\* is returned by the loop all the same.
C2_WriterBudget ==
    /\ \A num \in 1 .. MaxOutlines + 1 :
          Cardinality(CallsOf("writer", num, WRITING)) <= AGENT_MAX_ITERATIONS
    /\ \A d \in Drafts :
          d.h_low = AGENT_MAX_ITERATIONS =>
              /\ Len(chapters) >= d.chapter_num
              /\ chapters[d.chapter_num] = d

C2_Witness ==
    \E i \in DOMAIN chapters :
        /\ chapters[i].h_low = AGENT_MAX_ITERATIONS
        /\ Cardinality(CallsOf("writer", i, WRITING)) = AGENT_MAX_ITERATIONS

\* C3 as stated: when the first Writer score of a chapter meets the threshold,
\* the Editor is never invoked for that chapter, in no stage.
C3_NoEditorAtAll ==
    \A d \in Drafts :
        d.h_first_ok =>
            /\ CallsOf("editor", d.chapter_num, WRITING) = {}
            /\ CallsOf("editor", d.chapter_num, REVIEWING) = {}

\* C3 amended: when the first Writer score of a chapter meets the threshold,
\* the Editor is not invoked for that chapter inside the per-chapter loop (the
\* final review pass may still hand it to the Editor once).
C3_NoLoopEditor ==
    \A d \in Drafts :
        d.h_first_ok =>
            /\ CallsOf("editor", d.chapter_num, WRITING) = {}
            /\ Cardinality(CallsOf("editor", d.chapter_num, REVIEWING)) <= 1

C3_Witness ==
    \E i \in DOMAIN chapters :
        /\ chapters[i].h_first_ok
        /\ CallsOf("editor", i, REVIEWING) # {}

\* C4: every run of the background job eventually ends with the task
\* COMPLETED or FAILED.
C4_Terminates ==
    <>(pc = "done" /\ tasks_db.status \in Terminal)

C4_Witness ==
    /\ pc = "done"
    /\ tasks_db.status = COMPLETED
    /\ \E i \in DOMAIN chapters : chapters[i].h_low = AGENT_MAX_ITERATIONS
    /\ lowQuality

\* the steps of the status chain, with and without the POLISHING stage
ChainWithPolishing ==
    {<<PENDING, PLANNING>>, <<PLANNING, WRITING>>, <<WRITING, REVIEWING>>,
     <<REVIEWING, POLISHING>>, <<POLISHING, COMPLETED>>}

ChainAsWritten ==
    {<<PENDING, PLANNING>>, <<PLANNING, WRITING>>, <<WRITING, REVIEWING>>,
     <<REVIEWING, COMPLETED>>}

StatusSteps(chain) ==
    issued' # issued =>
        /\ issued \notin Terminal
        /\ <<issued, issued'>> \in chain \/ issued' = FAILED

TaskRecords == {tasks_db, redisTask, fallbackMain, fallbackGen}

\* C6: when an agent call raises, the task ends FAILED with the error and
\* without a result; no record that says FAILED holds a result; and
\* get_novel_result answers with a result only for a COMPLETED task.
C6_NoPartialDelivery ==
    /\ pending_error # NONE => result = <<>>
    /\ (pc = "done" /\ pending_error # NONE) =>
          /\ tasks_db.status = FAILED
          /\ tasks_db.error = pending_error
    /\ \A t \in TaskRecords :
          (Has(t, "status") /\ t.status = FAILED) =>
              (Has(t, "result") => t.result = <<>>)
    /\ response.code = 200 =>
          /\ tasks_db.status = COMPLETED
          /\ response.result = result

C6_Witness ==
    /\ pc = "done"
    /\ pending_error \in {"writer_error", "editor_error", "reviewer_error"}
    /\ Len(chapters) > 0
    /\ response.code = 400

\* C7: when the Planner's reply is not JSON, the task ends FAILED with the
\* parse error's message, no Writer, Editor or Reviewer is invoked and no
\* chapter is produced.
C7_UnparseableOutline ==
    planner_reply = "not_json" =>
        /\ Roles({"writer", "editor", "reviewer"}) = {}
        /\ chapters = <<>> /\ polished_chapters = <<>> /\ result = <<>>
        /\ pending_error = "outline_format_error"
        /\ pc \in {"gen_except", "main_except", "done"}
        /\ pc = "done" =>
              /\ tasks_db.status = FAILED
              /\ tasks_db.error = "outline_format_error"

C7_Witness == pc = "done" /\ planner_reply = "not_json"

\* a step in which the Reviewer answered (it did not raise)
ReviewerAnswers ==
    /\ pc = "reviewer"
    /\ calls' # calls
    /\ review_response'.reply \in {"parsed", "not_json"}

\* C13: a Reviewer reply that is not JSON never raises: the Reviewer answers
\* with the fixed score 0.6 and the action "revise", the reply is logged and
\* the review pass goes on (to the Editor for that chapter).
C13_ReviewFallback ==
    [][(ReviewerAnswers /\ review_response'.reply = "not_json") =>
          /\ review_response'.score = ReviewFallbackScore
          /\ review_response'.action = "revise"
          /\ pending_error' = pending_error
          /\ pc' = "final_editor"
          /\ collaboration_log' = Append(collaboration_log, "reviewer")]_vars

\* the last chapter's review was not JSON and the pass came to its end
C13_Witness ==
    /\ pc = "reviewer"
    /\ review_idx > Len(chapters)
    /\ review_response.reply = "not_json"
    /\ Len(polished_chapters) = MaxOutlines
    /\ polished_chapters[MaxOutlines].h_final_edit

\* C15: a Writer draft that follows an Editor call of the same chapter is
\* based on the Editor's output.
C15_EditorOutputIsBase ==
    \A d \in Drafts :
        (d.author = "writer" /\ d.h_loop_edits > 0) => d.based_on = "editor"

\* the final pass has looked at every chapter
PassComplete == review_idx > Len(chapters)

\* what a Reviewer answer leads to: the Editor when the score is below 0.8
\* and the action is "revise", the draft as final chapter otherwise
ReviewGateStep ==
    ReviewerAnswers =>
        IF /\ review_response'.score < PolishGate
           /\ review_response'.action = "revise"
        THEN /\ pc' = "final_editor"
             /\ polished_chapters' = polished_chapters
             /\ review_idx' = review_idx
        ELSE /\ pc' = "reviewer"
             /\ polished_chapters' =
                   Append(polished_chapters, chapters[review_idx])
             /\ review_idx' = review_idx + 1

\* what the Editor's answer in the final pass leads to: its output is the
\* final chapter and the pass moves to the next chapter
FinalEditStep ==
    (pc = "final_editor" /\ pc' = "reviewer") =>
        /\ calls' = Append(calls, <<"editor", chapters[review_idx].chapter_num,
                                   REVIEWING>>)
        /\ polished_chapters' =
              Append(polished_chapters, FinalEdit(chapters[review_idx]))
        /\ review_idx' = review_idx + 1

\* C16: in the final pass the Reviewer is invoked once per drafted chapter;
\* the Editor is invoked once, without a second review, for a chapter scored
\* below 0.8 with the action "revise" and its output is the final chapter;
\* otherwise the Editor is not invoked and the draft is the final chapter; the
\* returned list has the length and the chapter numbers of the input.
C16_FinalPass ==
    /\ [](\A i \in 1 .. MaxOutlines + 1 :
            /\ Cardinality(CallsOf("reviewer", i, REVIEWING)) <= 1
            /\ Cardinality(CallsOf("editor", i, REVIEWING)) <= 1)
    /\ [](PassComplete =>
            /\ Len(polished_chapters) = Len(chapters)
            /\ \A i \in DOMAIN chapters :
                  LET num == chapters[i].chapter_num
                      edits == Cardinality(CallsOf("editor", num, REVIEWING))
                  IN  /\ polished_chapters[i].chapter_num = num
                      /\ Cardinality(CallsOf("reviewer", num, REVIEWING)) = 1
                      /\ polished_chapters[i] =
                            IF edits = 1 THEN FinalEdit(chapters[i])
                            ELSE chapters[i])
    /\ [][ReviewGateStep /\ FinalEditStep]_vars

C16_Witness ==
    /\ pc = "status_completed"
    /\ Len(polished_chapters) = MaxOutlines
    /\ polished_chapters[1].h_final_edit
    /\ ~polished_chapters[2].h_final_edit
    /\ polished_chapters[2].h_low > 0

\* C17: the calls of the per-chapter loops are made chapter by chapter in
\* index order, and the Writer for chapter k receives exactly the returned
\* drafts of the chapters 1 .. k-1 as previous chapters.
C17_Sequential ==
    /\ LET loop == SelectSeq(calls, LAMBDA c : c[3] = WRITING)
       IN  \A i \in 1 .. Len(loop) - 1 : loop[i][2] <= loop[i + 1][2]
    /\ \A d \in Drafts :
          /\ Len(chapters) >= d.chapter_num - 1
          /\ d.h_prev = Received(SubSeq(chapters, 1, d.chapter_num - 1))
    /\ \A i \in DOMAIN chapters : chapters[i].chapter_num = i

C17_Witness ==
    /\ pc = "editor"
    /\ chapter_num = MaxOutlines
    /\ Len(chapter[1].h_prev) = MaxOutlines - 1
    /\ chapter[1].h_writer_calls = 2

ProgressStep ==
    /\ issued_progress' \in 0 .. 100
    /\ (issued_progress' < issued_progress) => (issued' = FAILED)

\* C18: the progress values handed to the task stores lie in 0 .. 100 and
\* never decrease from one update to the next, except in the update that
\* sets the status to FAILED; the per-chapter progress stays between the
\* WRITING and the REVIEWING value for every number of chapters a request
\* may ask for.
C18_ProgressMonotonic ==
    /\ \A n \in 1 .. ChapterCountLimit : \A k \in 1 .. n :
          /\ 25 <= ChapterProgress(k, n)
          /\ ChapterProgress(k, n) <= 80
          /\ k < n => ChapterProgress(k, n) <= ChapterProgress(k + 1, n)
    /\ [][ProgressStep]_vars

C18_Witness ==
    /\ pc = "main_store"
    /\ issued_progress = 100
    /\ lowQuality
    /\ outline = MaxOutlines

\* the positions at which the job hands a status update to a task store
SinkPcs ==
    {"created", "status_planning", "status_low_quality", "status_writing",
     "loop_head", "status_completed", "gen_except", "main_store",
     "main_except"}

\* where the job goes on after a status update none of whose operations fails
AfterStatus ==
    CASE pc = "created" -> "status_planning"
      [] pc = "status_planning" -> "planner"
      [] pc = "status_low_quality" -> "status_writing"
      [] pc = "status_writing" -> "loop_head"
      [] pc = "loop_head" ->
            IF chapter_num <= outline THEN "writer" ELSE "reviewer"
      [] pc = "status_completed" -> "main_store"
      [] pc = "gen_except" -> "main_except"
      [] pc \in {"main_store", "main_except"} -> "done"
      [] OTHER -> pc

\* C19: a status update never raises and never steers the job, whichever of
\* its store operations fail: after it the job is where it would be had none
\* failed, with the same agent invocations, the same chapters, the same
\* result and the same error, and the job ends with the outcome the agents'
\* replies determine.
C19_SinkNeverSteers ==
    /\ [][(pc \in SinkPcs /\ pc' # pc) =>
              /\ pc' = AfterStatus
              /\ calls' = calls
              /\ collaboration_log' = collaboration_log
              /\ pending_error' = pending_error
              /\ result' = result
              /\ outline' = outline
              /\ chapters' = IF pc = "status_writing" THEN <<>> ELSE chapters]_vars
    /\ [](pc = "done" =>
            IF pending_error = NONE
            THEN tasks_db.status = COMPLETED /\ tasks_db.result = result
            ELSE tasks_db.status = FAILED /\ tasks_db.error = pending_error)

\* the generator's COMPLETED update did not reach the record, the run went on
C19_Witness ==
    /\ redisFlaky
    /\ pc = "main_store"
    /\ result # <<>>
    /\ Has(redisTask, "status") => redisTask.status # COMPLETED
    /\ \E i \in DOMAIN chapters : chapters[i].h_low = AGENT_MAX_ITERATIONS

-----------------------------------------------------------------------------
(* Properties of the retry wrapper, the Reviewer's score and the request *)

\* C11: when the first attempt of call_llm or of OpenAIProvider.generate
\* fails with a permanent error (authentication, malformed request), the
\* error is propagated at once: no second attempt is made or waited for.
C11_PermanentNotRetried ==
    (/\ llm_fn \in {"call_llm", "generate"}
     /\ attempt_log # <<>>
     /\ attempt_log[1] \in PermanentErrors) =>
        /\ Len(attempt_log) = 1
        /\ llm_pc = "raised"

\* C12: one call of a wrapped function makes at most 3 attempts, attempt k+1
\* only after attempt k failed; it returns the value of the first successful
\* attempt and fails once 3 attempts have failed.
C12_AtMostThreeAttempts ==
    /\ Len(attempt_log) <= 3
    /\ \A k \in DOMAIN attempt_log :
          k < Len(attempt_log) => attempt_log[k] # "ok"
    /\ llm_pc = "returned" <=>
          (attempt_log # <<>> /\ attempt_log[Len(attempt_log)] = "ok")
    /\ llm_pc = "returned" =>
          llm_result = [kind |-> "returned", attempt |-> Len(attempt_log)]
    /\ llm_pc = "raised" <=>
          (Len(attempt_log) = 3 /\ \A k \in 1 .. 3 : attempt_log[k] # "ok")
    /\ llm_pc = "raised" => llm_result.kind = "raised"
    /\ llm_pc \in {"attempting", "waiting"} => Len(attempt_log) < 3

C12_Witness ==
    /\ llm_pc = "returned"
    /\ llm_result.attempt = 3
    /\ Len(slept) >= 2

\* the mean of the axis scores on the 5-point scale, clamped to [0, 1]
ClampedMean(scores) ==
    LET total == SumValues(scores)
        max_score == Cardinality(DOMAIN scores) * MaxAxisScore
    IN  [num |-> IF total < 0 THEN 0
                 ELSE IF total > max_score THEN max_score ELSE total,
         den |-> max_score]

\* C14: for a parsed review with per-axis scores, the Reviewer's
\* quality_score is the mean of the axis scores over the 5-point scale,
\* clamped to [0, 1]: never below 0 and never above 1.
C14_ScoreClamped ==
    (/\ quality_score # <<>>
     /\ Has(review_data, "scores")
     /\ DOMAIN review_data.scores # {}) =>
        /\ quality_score[1] = ClampedMean(review_data.scores)
        /\ 0 <= quality_score[1].num
        /\ quality_score[1].num <= quality_score[1].den

\* C20: validation rejects every request whose share per chapter,
\* word_count // chapter_count with the chapter_count of the request, is
\* below 200.
C20_FloorRejected ==
    (/\ validation # NONE
     /\ raw_request.chapter_count > 0
     /\ raw_request.word_count \div raw_request.chapter_count
            < MinWordsPerChapter) =>
        validation = "rejected"

-----------------------------------------------------------------------------
(* Properties of the routing layer *)

\* the position of a name in the list of the call
IndexIn(list, name) == CHOOSE i \in DOMAIN list : list[i] = name

\* C8: generate_with_fallback invokes the candidates in list order, returns
\* the result of the first candidate that succeeds without invoking a later
\* one, and raises only when every candidate of the list raised.
C8_FirstSuccessOrAllRaised ==
    rpc \in {"fallback", "fallback_done"} =>
        /\ \A i, j \in DOMAIN attempts :
              i < j => IndexIn(providers, attempts[i]) < IndexIn(providers, attempts[j])
        /\ outcome.kind = "returned" =>
              /\ attempts # <<>>
              /\ outcome.value = attempts[Len(attempts)]
              /\ failures = SubSeq(attempts, 1, Len(attempts) - 1)
        /\ outcome.kind = "raised" =>
              \A i \in DOMAIN providers : providers[i] \in Range(failures)

C10_EveryProviderReported ==
    rpc = "parallel_done" =>
        /\ outcome.kind = "returned"
        /\ \A i \in DOMAIN providers :
              Registered(providers[i]) =>
                  /\ providers[i] \in Range(attempts)
                  /\ Has(output, providers[i])
                  /\ output[providers[i]].by = providers[i]
                  /\ output[providers[i]].kind =
                        IF providers[i] \in Range(failures) THEN "error"
                        ELSE "value"

-----------------------------------------------------------------------------
(* The collaboration log and the order of the stages *)

\* the roles of the agent invocations of the task, in invocation order
InvokedRoles == [i \in DOMAIN calls |-> calls[i][1]]

\* C21: the collaboration log of a run that returned its result holds exactly
\* one entry for every agent invocation of the task (Planner, Writer, loop
\* Editor, Reviewer, final-pass Editor), in invocation order
C21_OneEntryPerInvocation ==
    result # <<>> => collaboration_log = InvokedRoles

\* the positions of the job before the Planner has been invoked
BeforePlanner == {"created", "status_planning", "planner"}

PlannerCalls == Cardinality(Roles({"planner"}))

\* the Planner has been invoked once when the job is past it, never twice
PlannerOnce ==
    /\ PlannerCalls <= 1
    /\ pc \notin BeforePlanner => PlannerCalls = 1

\* the step after a low outline score goes on to WRITING without a failure,
\* and no step invokes an agent once an exception is on its way
NoReplanStep ==
    /\ pc = "status_low_quality" /\ pc' # pc =>
          /\ pc' = "status_writing"
          /\ issued' = PLANNING
          /\ pending_error' = NONE
          /\ calls' = calls
    /\ pc = "status_writing" /\ pc' # pc => issued' = WRITING
    /\ pending_error # NONE => calls' = calls /\ pc' \notin BeforePlanner

\* C22: the Planner is invoked exactly once per task; an outline score below
\* 0.6 neither plans again nor fails the task, which goes on to WRITING; and
\* a failure in a later stage never runs the Planner again
C22_PlannerOnce == [](PlannerOnce) /\ [][NoReplanStep]_vars

C22_Witness ==
    /\ lowQuality
    /\ pc = "done"
    /\ pending_error = "writer_error"
    /\ PlannerCalls = 1
    /\ Cardinality(Roles({"writer"})) >= 2

\* the invocation a step adds to the history, <<>> when it adds none
Invoked == IF Len(calls') > Len(calls) THEN <<calls'[Len(calls')]>> ELSE <<>>

\* a step that invokes an agent of the final pass finds every chapter of the
\* outline drafted and the status REVIEWING already issued; a step that
\* invokes an agent of the per-chapter loop finds no final-pass invocation
ReviewAfterDrafting ==
    \A c \in Range(Invoked) :
        /\ c[3] = REVIEWING =>
              /\ Len(chapters) = outline
              /\ \A k \in 1 .. outline :
                    /\ CallsOf("writer", k, WRITING) # {}
                    /\ chapters[k].chapter_num = k
              /\ issued = REVIEWING
              /\ pc \notin {"loop_head", "writer", "editor"}
        /\ c[3] = WRITING => Roles({"reviewer"}) = {}

\* C25: no Reviewer invocation happens before every chapter has been
\* drafted: the first Reviewer call comes after the per-chapter loop of the
\* last chapter has ended, and the status REVIEWING is set before it
C25_ReviewAfterDrafting == [][ReviewAfterDrafting]_vars

C25_Witness ==
    /\ outline = MaxOutlines
    /\ Cardinality(Roles({"reviewer"})) = 1
    /\ Cardinality(Roles({"writer"})) > outline
    /\ issued = REVIEWING

-----------------------------------------------------------------------------
(* IntelligentRouter.route_request *)

\* llm_providers.py 519-526: self.task_routing
TaskRouting ==
    [outline   |-> <<"claude", "gpt-4">>,
     creative  |-> <<"claude", "gpt-3.5-turbo">>,
     dialogue  |-> <<"gpt-3.5-turbo", "qwen">>,
     polish    |-> <<"claude", "gpt-4">>,
     translate |-> <<"gpt-3.5-turbo", "qwen">>,
     summary   |-> <<"gpt-3.5-turbo", "qwen">>]

\* llm_providers.py 533: len(prompt) above which the list is replaced
LongContextThreshold == 10000

\* a prompt is represented by its length
PromptLengths == {0, LongContextThreshold, LongContextThreshold + 1}

\* a router that switches lists at the threshold itself
RouteAtThreshold(task_type, prompt_len) ==
    IF prompt_len >= LongContextThreshold
    THEN <<"claude", "moonshot-v1-128k">>
    ELSE IF task_type \in DOMAIN TaskRouting THEN TaskRouting[task_type]
    ELSE <<"gpt-3.5-turbo">>

\* llm_providers.py 530-535: dict.get with a default, then the override
RouteCandidates(task_type, prompt_len) ==
    LET providers0 == IF task_type \in DOMAIN TaskRouting
                      THEN TaskRouting[task_type]
                      ELSE <<"gpt-3.5-turbo">>
    IN  IF prompt_len > LongContextThreshold
        THEN <<"claude", "moonshot-v1-128k">>
        ELSE providers0

\* llm_providers.py 528-537 and 441-446: route_request hands its list to
\* generate_with_fallback
RouteRequest ==
    /\ rpc = "idle"
    /\ \E task_type \in DOMAIN TaskRouting \cup {"unknown"},
          prompt_len \in PromptLengths :
          /\ route_call' = [task_type |-> task_type, prompt_len |-> prompt_len]
          /\ providers' = Candidates(RouteCandidates(task_type, prompt_len),
                                     Len(registry))
    /\ fb_idx' = 1
    /\ last_error' = NONE
    /\ outcome' = [kind |-> "running"]
    /\ rpc' = "fallback"
    /\ UNCHANGED <<redisUp, redisFlaky, orchVars, llmVars, scoreVars,
                   requestVars, provider_of, cost_log, rateVars, readerVars,
                   batchVars, lockVars, registry, attempts, failures, tasks, output>>

\* the names the router's lists use, in a fixed order
RoutedNames ==
    <<"claude", "gpt-4", "gpt-3.5-turbo", "qwen", "moonshot-v1-128k">>

\* llm_providers.py 545-568: the provider object a registration under `name`
\* holds: its class and its self.model
ProviderNamed(name) ==
    CASE name = "claude" ->
            [class |-> "AnthropicProvider", model |-> "claude-3-sonnet-20240229"]
      [] name = "gpt-4" -> [class |-> "OpenAIProvider", model |-> "gpt-4"]
      [] name = "gpt-3.5-turbo" ->
            [class |-> "OpenAIProvider", model |-> "gpt-3.5-turbo-16k"]
      [] name = "qwen" -> [class |-> "QwenProvider", model |-> "qwen-turbo"]
      [] OTHER -> [class |-> "MoonshotProvider", model |-> "moonshot-v1-128k"]

\* llm_providers.py 428-433: a manager in which `names` are registered
ManagerOf(names) ==
    /\ registry = SelectSeq(RoutedNames, LAMBDA n : n \in names)
    /\ provider_of = [n \in names |-> ProviderNamed(n)]

InitRouter ==
    /\ redisUp = FALSE
    /\ redisFlaky = FALSE
    /\ OrchIdle
    /\ \E names \in SUBSET Range(RoutedNames) : ManagerOf(names)
    /\ rpc = "idle"
    /\ providers = <<>>
    /\ fb_idx = 0
    /\ attempts = <<>>
    /\ failures = <<>>
    /\ last_error = NONE
    /\ outcome = [kind |-> NONE]
    /\ tasks = <<>>
    /\ output = NoTask
    /\ llm_fn = NONE
    /\ llm_pc = "idle"
    /\ attempt_number = 0
    /\ attempt_log = <<>>
    /\ slept = <<>>
    /\ llm_result = [kind |-> NONE]
    /\ review_data = NoTask
    /\ quality_score = <<>>
    /\ raw_request = NoTask
    /\ validation = NONE
    /\ route_call = [task_type |-> NONE]
    /\ cost_log = <<>>
    /\ RateIdle
    /\ status_update = [made |-> 0, next |-> "status"]
    /\ seen = NoTask
    /\ BatchIdle
    /\ LockIdle

NextRouter ==
    \/ RouteRequest
    \/ FallbackSkip
    \/ FallbackTry
    \/ FallbackRaise

SpecRouter == InitRouter /\ [][NextRouter]_vars

\* the candidates generate_with_fallback has gone through so far
TriedSoFar ==
    SubSeq(providers, 1,
           IF fb_idx > Len(providers) THEN Len(providers)
           ELSE IF outcome.kind = "returned" THEN fb_idx ELSE fb_idx - 1)

\* C23: route_request takes its candidate list from the task-type table (the
\* single default candidate for an unknown task type) when the prompt length
\* is at most 10000, and the long-context list for every task type when the
\* length exceeds 10000; generate_with_fallback tries the list in order
C23_RouteSelection ==
    route_call.task_type # NONE =>
        /\ route_call.prompt_len <= 10000 =>
              providers = IF route_call.task_type \in DOMAIN TaskRouting
                          THEN TaskRouting[route_call.task_type]
                          ELSE <<"gpt-3.5-turbo">>
        /\ route_call.prompt_len > 10000 =>
              providers = <<"claude", "moonshot-v1-128k">>
        /\ attempts = SelectSeq(TriedSoFar, Registered)

C23_Witness ==
    /\ route_call.task_type = "dialogue"
    /\ route_call.prompt_len > 10000
    /\ attempts = <<"claude", "moonshot-v1-128k">>
    /\ outcome.kind = "returned"

-----------------------------------------------------------------------------
(* generate_with_fallback over providers that retry on their own *)

\* llm_providers.py 86, 178, 251 and 333: of the providers' generate methods
\* only OpenAIProvider's carries the @retry decorator
RetriesItself(name) == provider_of[name].class = "OpenAIProvider"

\* llm_providers.py 452-460 and 86-113: one remote attempt of the current
\* candidate's generate.  A wrapped generate that raised is called again
\* until the wrapper stops; the exception that leaves generate sends
\* generate_with_fallback to the next candidate.
CandidateAttempt ==
    /\ rpc = "fallback"
    /\ fb_idx <= Len(providers)
    /\ Registered(providers[fb_idx])
    /\ LET name == providers[fb_idx]
           n == attempt_number + 1
       IN  /\ attempts' = IF n = 1 THEN Append(attempts, name) ELSE attempts
           /\ \E r \in {"ok"} \cup ProviderErrors :
                /\ attempt_log' = Append(attempt_log,
                                         [provider |-> name, result |-> r])
                /\ IF r = "ok"
                   THEN /\ outcome' = [kind |-> "returned", value |-> name]
                        /\ rpc' = "fallback_done"
                        /\ UNCHANGED <<fb_idx, failures, last_error,
                                       attempt_number, slept>>
                   ELSE IF RetriesItself(name) /\ ShouldRetry(r)
                           /\ ~ShouldStop(n)
                   THEN /\ attempt_number' = n
                        /\ slept' = slept
                                \o (IF r = "rate_limit"
                                    THEN <<RateLimitSleep>> ELSE <<>>)
                                \o <<WaitExponential(n)>>
                        /\ UNCHANGED <<fb_idx, failures, last_error, outcome,
                                       rpc>>
                   ELSE /\ failures' = Append(failures, name)
                        /\ last_error' = name
                        /\ fb_idx' = fb_idx + 1
                        /\ attempt_number' = 0
                        /\ slept' = IF RetriesItself(name) /\ r = "rate_limit"
                                    THEN Append(slept, RateLimitSleep)
                                    ELSE slept
                        /\ UNCHANGED <<outcome, rpc>>
    /\ UNCHANGED <<redisUp, redisFlaky, orchVars, llm_fn, llm_pc, llm_result,
                   scoreVars, requestVars, sideVars, registry, providers,
                   tasks, output>>

NextEscalate ==
    \/ RouteRequest
    \/ FallbackSkip
    \/ CandidateAttempt
    \/ FallbackRaise

SpecEscalate == InitRouter /\ [][NextEscalate]_vars

\* the remote attempts made at one provider, and those that failed
AttemptsAt(name) ==
    {i \in DOMAIN attempt_log : attempt_log[i].provider = name}

\* the attempt cap of a candidate: 3 for the OpenAI provider, 1 for the others
AttemptCap(name) ==
    IF provider_of[name].class = "OpenAIProvider" THEN 3 ELSE 1

RECURSIVE SumOfCaps(_)
SumOfCaps(names) ==
    IF names = {} THEN 0
    ELSE LET n == CHOOSE x \in names : TRUE
         IN  AttemptCap(n) + SumOfCaps(names \ {n})

\* C28: generate_with_fallback moves on to the next candidate only after the
\* current candidate's own attempts are used up (3 failed attempts for the
\* OpenAI provider, 1 for a provider without a retry wrapper), so one call
\* makes at most the sum of its candidates' caps in remote attempts
C28_EscalatesAfterRetries ==
    /\ \A name \in Range(failures) :
          /\ Cardinality(AttemptsAt(name)) = AttemptCap(name)
          /\ \A i \in AttemptsAt(name) : attempt_log[i].result # "ok"
    /\ \A name \in Range(attempts) :
          Cardinality(AttemptsAt(name)) <= AttemptCap(name)
    /\ Len(attempt_log)
          <= SumOfCaps({n \in Range(providers) : Registered(n)})

C28_Witness ==
    /\ failures = <<"gpt-3.5-turbo">>
    /\ Cardinality(AttemptsAt("gpt-3.5-turbo")) = 3
    /\ attempt_log[1].result = "auth"
    /\ outcome = [kind |-> "returned", value |-> "qwen"]

-----------------------------------------------------------------------------
(* MultiModelManager.estimate_total_cost.  A text is represented by its     *)
(* numbers of CJK and of other characters.  Costs are dollars in the        *)
(* source; here one unit is 1/18000000 dollar, in which every rate of the   *)
(* pricing tables is whole, and a rounded cost counts 1/10000 dollars.      *)

MaxEstimates == 2

\* llm_providers.py 498: output_length's default
DefaultOutputLength == 2000

TextSamples ==
    {[chinese |-> 0, other |-> 0], [chinese |-> 0, other |-> 4000],
     [chinese |-> 3000, other |-> 0]}

\* a counter that adds each text to a running total of the manager
CountTokensRunning(provider, text) ==
    (text.chinese + text.other) \div 4 + 1000 * Len(cost_log)

\* llm_providers.py 134-136, 214-217, 294-299 and 400-404: count_tokens.
\* OpenAIProvider counts the tokens of its tiktoken encoding, a fixed table:
\* one token per CJK character and per four other characters stands for it.
CountTokens(provider, text) ==
    CASE provider.class = "OpenAIProvider" ->
            text.chinese + (text.other + 3) \div 4
      [] provider.class = "AnthropicProvider" ->
            (text.chinese + text.other) \div 4
      [] OTHER -> (8 * text.chinese + 3 * text.other) \div 12

\* llm_providers.py 138-160, 219-232, 301-313 and 406-416: estimate_cost.
\* OpenAIProvider takes the first pricing key contained in self.model, so a
\* gpt-3.5-turbo-16k provider is priced as gpt-3.5-turbo.
EstimateCost(provider, input_tokens, output_tokens) ==
    CASE provider.class = "OpenAIProvider" /\ provider.model = "gpt-4" ->
            540 * input_tokens + 1080 * output_tokens
      [] provider.class = "OpenAIProvider" ->
            27 * input_tokens + 36 * output_tokens
      [] provider.class = "AnthropicProvider" ->
            54 * input_tokens + 270 * output_tokens
      [] provider.class = "QwenProvider" ->
            20 * (input_tokens + output_tokens)
      [] OTHER -> 150 * (input_tokens + output_tokens)

\* round(cost, 4): the nearest number of 1/10000 dollars, ties to the even one
Round4(cost) ==
    LET q == cost \div 1800
        r == cost % 1800
    IN  IF 2 * r > 1800 \/ (2 * r = 1800 /\ q % 2 = 1) THEN q + 1 ELSE q

\* llm_providers.py 498-507
EstimateTotalCostOf(text, output_length) ==
    [name \in DOMAIN provider_of |->
        Round4(EstimateCost(provider_of[name],
                            CountTokens(provider_of[name], text),
                            output_length))]

\* llm_providers.py 428-433: register_provider puts an object under a name
RegisterProvider ==
    /\ \E name \in Range(RoutedNames) \ DOMAIN provider_of :
          /\ registry' = Append(registry, name)
          /\ provider_of' = [n \in DOMAIN provider_of \cup {name} |->
                                ProviderNamed(n)]
    /\ UNCHANGED <<redisUp, redisFlaky, orchVars, llmVars, scoreVars,
                   requestVars, route_call, cost_log, rateVars, readerVars,
                   batchVars, lockVars, rpc, providers, fb_idx, attempts, failures, last_error,
                   outcome, tasks, output>>

\* llm_providers.py 498-507: a caller asks for an estimate
EstimateTotalCost ==
    /\ Len(cost_log) < MaxEstimates
    /\ \E text \in TextSamples, output_length \in {0, DefaultOutputLength} :
          cost_log' = Append(cost_log,
                             [text |-> text, output_length |-> output_length,
                              providers |-> provider_of,
                              costs |-> EstimateTotalCostOf(text, output_length)])
    /\ UNCHANGED <<baseVars, llmVars, scoreVars, requestVars, route_call,
                   provider_of, rateVars, readerVars, batchVars, lockVars>>

InitCost ==
    /\ redisUp = FALSE
    /\ redisFlaky = FALSE
    /\ OrchIdle
    /\ RouteIdle
    /\ UnitsIdle

NextCost == RegisterProvider \/ EstimateTotalCost

SpecCost == InitCost /\ [][NextCost]_vars

\* calls with the same text and output length on the same providers gave the
\* same cost map
SameInputSameCosts ==
    \A i, j \in DOMAIN cost_log :
        /\ cost_log[i].text = cost_log[j].text
        /\ cost_log[i].output_length = cost_log[j].output_length
        /\ cost_log[i].providers = cost_log[j].providers
        => cost_log[i].costs = cost_log[j].costs

\* a step that logs an estimate leaves the manager as it was
EstimateChangesNothing ==
    Len(cost_log') > Len(cost_log) =>
        /\ registry' = registry
        /\ provider_of' = provider_of
        /\ DOMAIN cost_log'[Len(cost_log')].costs = Range(registry)

-----------------------------------------------------------------------------
(* RedisCache.check_rate_limit under the worker threads that run the        *)
(* check_rate_limit dependency of POST /api/novel/generate                  *)

\* the key as the server holds it now: a key whose time to live ran out is gone
LiveKey ==
    IF rate_key # NoTask /\ rate_key.expires >= 0
          /\ rate_clock >= rate_key.expires
    THEN NoTask ELSE rate_key

CallsStarted ==
    Len(rate_results) + Cardinality({t \in Callers : rate_calls[t].pc # "idle"})

\* redis_cache.py 412, 428-429 and 431-433: the call returns
RateReturn(t, at, key, allowed) ==
    /\ rate_calls' = [rate_calls EXCEPT ![t] = IdleCall]
    /\ rate_results' = Append(rate_results,
                              [at |-> at, key |-> key, allowed |-> allowed])

\* redis_cache.py 406-412: client.incr(key), one command of the server.  A
\* RedisError leaves the with block through _handle_redis_error, whose
\* second yield makes contextlib raise; `except Exception` returns True.
RateIncr(t) ==
    /\ redisUp
    /\ rate_calls[t].pc = "idle"
    /\ CallsStarted < MaxRateCalls
    /\ \E ok \in OpOutcomes :
          LET born == IF LiveKey = NoTask THEN rate_clock ELSE LiveKey.h_born
              current == IF LiveKey = NoTask THEN 1 ELSE LiveKey.count + 1
          IN  IF ~ok
              THEN /\ RateReturn(t, rate_clock, born, TRUE)
                   /\ UNCHANGED rate_key
              ELSE /\ rate_key' = [count |-> current, h_born |-> born,
                                   expires |-> IF LiveKey = NoTask THEN -1
                                               ELSE LiveKey.expires]
                   /\ IF current = 1
                      THEN /\ rate_calls' =
                                [rate_calls EXCEPT ![t] =
                                    [IdleCall EXCEPT !.pc = "expire",
                                                     !.now = rate_clock,
                                                     !.current = current]]
                           /\ UNCHANGED rate_results
                      ELSE RateReturn(t, rate_clock, born,
                                      current <= LimitPerWindow)
    /\ UNCHANGED <<baseVars, llmVars, scoreVars, requestVars, managerVars,
                   readerVars, batchVars, lockVars, rate_clock, rate_limit_cache>>

\* redis_cache.py 410-412: the caller that created the key starts its window
RateExpire(t) ==
    /\ rate_calls[t].pc = "expire"
    /\ \E ok \in OpOutcomes :
          IF ok
          THEN /\ rate_key' = IF LiveKey = NoTask THEN NoTask
                              ELSE [LiveKey EXCEPT
                                       !.expires = rate_clock + WindowTicks]
               /\ RateReturn(t, rate_calls[t].now, rate_calls[t].now,
                             rate_calls[t].current <= LimitPerWindow)
          ELSE /\ RateReturn(t, rate_calls[t].now, rate_calls[t].now, TRUE)
               /\ UNCHANGED rate_key
    /\ UNCHANGED <<baseVars, llmVars, scoreVars, requestVars, managerVars,
                   readerVars, batchVars, lockVars, rate_clock, rate_limit_cache>>

\* redis_cache.py 413-423: without a client the call reads the clock and the
\* user's list and drops the entries older than the window
RateRead(t) ==
    /\ ~redisUp
    /\ rate_calls[t].pc = "idle"
    /\ CallsStarted < MaxRateCalls
    /\ rate_calls' =
          [rate_calls EXCEPT ![t] =
              [IdleCall EXCEPT
                  !.pc = "check",
                  !.now = rate_clock,
                  !.user_requests =
                      SelectSeq(rate_limit_cache,
                                LAMBDA req_time :
                                    req_time > rate_clock - WindowTicks)]]
    /\ UNCHANGED <<baseVars, llmVars, scoreVars, requestVars, managerVars,
                   readerVars, batchVars, lockVars, rate_clock, rate_key, rate_limit_cache, rate_results>>

\* redis_cache.py 425-429: the list the call read is extended and stored
RateCheck(t) ==
    /\ rate_calls[t].pc = "check"
    /\ IF Len(rate_calls[t].user_requests) < LimitPerWindow
       THEN /\ rate_limit_cache' =
                  Append(rate_calls[t].user_requests, rate_calls[t].now)
            /\ RateReturn(t, rate_calls[t].now, -1, TRUE)
       ELSE /\ RateReturn(t, rate_calls[t].now, -1, FALSE)
            /\ UNCHANGED rate_limit_cache
    /\ UNCHANGED <<baseVars, llmVars, scoreVars, requestVars, managerVars,
                   readerVars, batchVars, lockVars, rate_clock, rate_key>>

\* time passes
RateTick ==
    /\ rate_clock < MaxClock
    /\ rate_clock' = rate_clock + 1
    /\ UNCHANGED <<baseVars, llmVars, scoreVars, requestVars, managerVars,
                   readerVars, batchVars, lockVars, rate_key, rate_limit_cache, rate_calls, rate_results>>

\* main.py 46-58: cache connected to a Redis server, which may fail later,
\* or runs on its in-memory fallback
InitRate ==
    /\ redisUp \in BOOLEAN
    /\ redisFlaky \in BOOLEAN
    /\ redisFlaky => redisUp
    /\ OrchIdle
    /\ RouteIdle
    /\ UnitsIdle

NextRate ==
    \/ \E t \in Callers : RateIncr(t)
    \/ \E t \in Callers : RateExpire(t)
    \/ \E t \in Callers : RateRead(t)
    \/ \E t \in Callers : RateCheck(t)
    \/ RateTick

SpecRate == InitRate /\ [][NextRate]_vars

\* the calls that returned True
Granted == {i \in DOMAIN rate_results : rate_results[i].allowed}

\* the in-memory path: the calls granted within any one window
MemoryWithinLimit ==
    \A i \in Granted :
        Cardinality({j \in Granted :
                        /\ rate_results[i].at <= rate_results[j].at
                        /\ rate_results[j].at < rate_results[i].at + WindowTicks})
            <= LimitPerWindow

\* the Redis path: the calls granted during the life of one key
RedisWithinLimit ==
    \A i \in Granted :
        Cardinality({j \in Granted : rate_results[j].key = rate_results[i].key})
            <= LimitPerWindow

\* C26: whatever the interleaving of concurrent check_rate_limit calls of one
\* user, at most `limit` of the calls made within one window return True, on
\* the Redis path and on the in-memory path
C26_AtMostLimit ==
    IF redisUp THEN RedisWithinLimit ELSE MemoryWithinLimit

-----------------------------------------------------------------------------
(* AgentNovelGenerator._update_task_status, write by write, and a reader of *)
(* the task key on the Redis server (the status endpoint of another worker  *)
(* process, whose tasks_db does not hold the task)                          *)

\* agent_novel_generator.py 740, 752, 755, 761-764, 772 and 800: the updates
\* generate_novel makes for a one-chapter task with a low outline score
StatusUpdates ==
    <<[status |-> PLANNING, progress |-> 10, message |-> "planning"],
      [status |-> PLANNING, progress |-> 15, message |-> "replanning"],
      [status |-> WRITING, progress |-> 25, message |-> "writing"],
      [status |-> WRITING, progress |-> ChapterProgress(1, 1),
       message |-> "chapter"],
      [status |-> REVIEWING, progress |-> 80, message |-> "reviewing"],
      [status |-> COMPLETED, progress |-> 100, message |-> "completed"]>>

\* agent_novel_generator.py 887 and redis_cache.py 326-345: the first write
\* replaces the record by one with the new status and progress
StatusFirstWrite ==
    /\ status_update.next = "status"
    /\ status_update.made < Len(StatusUpdates)
    /\ LET u == StatusUpdates[status_update.made + 1]
       IN  /\ redisTask' = StatusWrite(redisTask, u.status, u.progress, NONE,
                                       NONE, TRUE, TRUE, TRUE, TRUE)
           /\ issued' = u.status
           /\ issued_progress' = u.progress
    /\ status_update' = [status_update EXCEPT !.next = "current_stage"]
    /\ UNCHANGED <<redisUp, redisFlaky, request, pc, tasks_db, fallbackMain,
                   fallbackGen, outline, lowQuality, chapters, chapter_num,
                   iteration, chapter, polished_chapters, review_idx,
                   collaboration_log, calls, planner_reply, pending_error,
                   result, review_response, response, routeVars, llmVars,
                   scoreVars, requestVars, managerVars, rateVars, seen,
                   batchVars, lockVars>>

\* agent_novel_generator.py 888-892: the second write replaces the record by
\* one with the new current_stage
StatusSecondWrite ==
    /\ status_update.next = "current_stage"
    /\ LET u == StatusUpdates[status_update.made + 1]
       IN  redisTask' = DictUpdate(redisTask, [current_stage |-> u.message])
    /\ status_update' = [made |-> status_update.made + 1, next |-> "status"]
    /\ UNCHANGED <<redisUp, redisFlaky, request, pc, tasks_db, fallbackMain,
                   fallbackGen, outline, lowQuality, chapters, chapter_num,
                   iteration, chapter, polished_chapters, review_idx,
                   collaboration_log, calls, planner_reply, pending_error,
                   result, issued, issued_progress, review_response, response,
                   routeVars, llmVars, scoreVars, requestVars, managerVars,
                   rateVars, seen, batchVars, lockVars>>

\* agent_novel_generator.py 804-807: an agent call raised; the update of the
\* except clause has no message and is one write
StatusFailedWrite ==
    /\ status_update.next = "status"
    /\ status_update.made < Len(StatusUpdates)
    /\ redisTask' = StatusWrite(redisTask, FAILED, 0, NONE, "writer_error",
                                TRUE, TRUE, TRUE, TRUE)
    /\ issued' = FAILED
    /\ issued_progress' = 0
    /\ status_update' = [made |-> Len(StatusUpdates), next |-> "status"]
    /\ UNCHANGED <<redisUp, redisFlaky, request, pc, tasks_db, fallbackMain,
                   fallbackGen, outline, lowQuality, chapters, chapter_num,
                   iteration, chapter, polished_chapters, review_idx,
                   collaboration_log, calls, planner_reply, pending_error,
                   result, review_response, response, routeVars, llmVars,
                   scoreVars, requestVars, managerVars, rateVars, seen,
                   batchVars, lockVars>>

\* main.py 312-319 and redis_cache.py 307-324: a reader gets the record
ReadTask ==
    /\ seen' = redisTask
    /\ UNCHANGED <<baseVars, llmVars, scoreVars, requestVars, managerVars,
                   rateVars, status_update, batchVars, lockVars>>

\* main.py 203-230: the task is stored and its job queued; both caches reach
\* one Redis server
InitStatus ==
    /\ redisUp = TRUE
    /\ redisFlaky = FALSE
    /\ TaskCreated
    /\ RouteIdle
    /\ UnitsIdle

NextStatus ==
    \/ StatusFirstWrite
    \/ StatusSecondWrite
    \/ StatusFailedWrite
    \/ ReadTask

SpecStatus == InitStatus /\ [][NextStatus]_vars

\* the record after the first k updates, each taken whole
RECURSIVE WholeRecord(_)
WholeRecord(k) ==
    IF k = 0 THEN NewTask
    ELSE [WholeRecord(k - 1) EXCEPT
             !.status = StatusUpdates[k].status,
             !.progress = StatusUpdates[k].progress,
             !.current_stage = StatusUpdates[k].message]

\* C27: every status update reaches the task record as one atomic
\* replacement: what a reader gets is the whole record before or after an
\* update, never the new status and progress with the previous current_stage
C27_AtomicReplace ==
    seen # NoTask =>
        \E k \in 0 .. Len(StatusUpdates) :
            \/ seen = WholeRecord(k)
            \/ seen = [WholeRecord(k) EXCEPT !.status = FAILED,
                                             !.progress = 0,
                                             !.error = "writer_error"]

-----------------------------------------------------------------------------
\* NovelGenerator.generate_chapters_batch (novel_generator.py 99-137)
\*
\* The chapter outlines are dicts; each has a title and may or may not have
\* the keys "characters" and "plot_points".  The for loop of line 122 names
\* its loop variable `outline`, the name of the method's second parameter,
\* and generate_single_chapter reads `outline` from the enclosing scope when
\* it runs, which is inside gather: it reads the chapter outline the loop
\* bound last, not the novel's outline.

\* novel_generator.py 127: a gather after every third chapter
BatchSize == 3

ChapterOutlineShapes ==
    { [title |-> "title"],
      [title |-> "title", characters |-> "cast"],
      [title |-> "title", characters |-> "cast", plot_points |-> <<"stage">>] }

\* the outline dict a caller passes as the second argument
NovelOutline == [characters |-> "cast", plot_points |-> <<"stage">>]

RECURSIVE SeqsUpTo(_, _)
SeqsUpTo(S, n) ==
    IF n = 0 THEN {<<>>}
    ELSE LET shorter == SeqsUpTo(S, n - 1)
         IN  shorter \cup {Append(q, x) : q \in {r \in shorter : Len(r) = n - 1},
                                          x \in S}

HasKey(d, k) == k \in DOMAIN d

\* get_context_window (160-167): the dict display evaluates
\* outline["characters"] first, then the condition on outline["plot_points"]
GetContextWindow(num, o) ==
    IF ~HasKey(o, "characters") THEN [error |-> "KeyError_characters"]
    ELSE IF ~HasKey(o, "plot_points") THEN [error |-> "KeyError_plot_points"]
    ELSE [error |-> NONE,
          context |->
              [characters |-> o.characters,
               current_plot_stage |->
                   IF num <= Len(o.plot_points)
                   THEN o.plot_points[num] ELSE "",
               previous_summary |-> ""]]

\* get_chapter_content_prompt (prompt_templates.py 292-294) starts with
\* context["outline"]
GetChapterContentPrompt(chapter_outline, context) ==
    IF ~HasKey(context, "outline") THEN [error |-> "KeyError_outline"]
    ELSE [error |-> NONE]

\* generate_single_chapter (102-112) from its start to its first await, the
\* call of call_openai; o is what `outline` is bound to when it runs, and
\* context_from keeps it as history
GenerateSingleChapter(task, o) ==
    LET ctx == GetContextWindow(task.chapter_num, o)
        ran == [task EXCEPT !.context_from = o]
    IN  IF ctx.error # NONE
        THEN [ran EXCEPT !.state = "failed", !.error = ctx.error]
        ELSE LET prompt == GetChapterContentPrompt(task.chapter_outline,
                                                   ctx.context)
             IN  IF prompt.error # NONE
                 THEN [ran EXCEPT !.state = "failed", !.error = prompt.error]
                 ELSE [ran EXCEPT !.state = "awaiting"]

BatchOfFour(i) == (i + 1) % (BatchSize + 1) = 0

\* line 127
BatchFull(i) == (i + 1) % BatchSize = 0

\* asyncio.gather(*tasks) wraps every coroutine in a task that the event loop
\* will run
Gather(ts) == [k \in 1 .. Len(ts) |-> [ts[k] EXCEPT !.state = "scheduled"]]

RECURSIVE SortedByChapterNum(_)
\* sorted(all_results, key=chapter_num) of line 137: a stable sort
SortedByChapterNum(rs) ==
    IF rs = <<>> THEN <<>>
    ELSE LET least == CHOOSE k \in 1 .. Len(rs) :
                 \A j \in 1 .. Len(rs) :
                     \/ rs[k].chapter_num < rs[j].chapter_num
                     \/ rs[k].chapter_num = rs[j].chapter_num /\ k <= j
             rest == [j \in 1 .. Len(rs) - 1 |->
                          IF j < least THEN rs[j] ELSE rs[j + 1]]
         IN  <<rs[least]>> \o SortedByChapterNum(rest)

Failed(ts) == {k \in 1 .. Len(ts) : ts[k].state = "failed"}

\* one iteration of the for loop (122-128): create the coroutine, append it,
\* and after every third one start the gather
BatchLoop ==
    /\ batch_out.kind = "loop"
    /\ batch_i < Len(chapter_outlines)
    /\ LET chapter_outline == chapter_outlines[batch_i + 1]
           task == [chapter_outline |-> chapter_outline,
                    chapter_num |-> batch_i + 1,
                    state |-> "created", error |-> NONE,
                    context_from |-> NoTask]
           ts == Append(batch_tasks, task)
       IN  /\ batch_outline' = chapter_outline
           /\ IF BatchFull(batch_i)
              THEN /\ batch_tasks' = Gather(ts)
                   /\ batch_out' = [kind |-> "gather"]
                   /\ batch_i' = batch_i
              ELSE /\ batch_tasks' = ts
                   /\ batch_i' = batch_i + 1
                   /\ batch_out' = batch_out
    /\ UNCHANGED <<baseVars, llmVars, scoreVars, requestVars, managerVars,
                   rateVars, readerVars, lockVars,
                   chapter_outlines, all_results>>

\* after the loop (133-137): gather what is left, or return the sorted list
BatchTail ==
    /\ batch_out.kind = "loop"
    /\ batch_i = Len(chapter_outlines)
    /\ IF batch_tasks # <<>>
       THEN /\ batch_tasks' = Gather(batch_tasks)
            /\ batch_out' = [kind |-> "gather"]
       ELSE /\ batch_out' = [kind |-> "returned",
                             value |-> SortedByChapterNum(all_results)]
            /\ batch_tasks' = batch_tasks
    /\ UNCHANGED <<baseVars, llmVars, scoreVars, requestVars, managerVars,
                   rateVars, readerVars, lockVars,
                   chapter_outlines, batch_outline,
                   batch_i, all_results>>

\* the event loop runs a task of the gather: generate_single_chapter up to
\* its first await.  The other tasks of a gather that has raised stay
\* scheduled and run too.
RunChapter(k) ==
    /\ k \in 1 .. Len(batch_tasks)
    /\ batch_tasks[k].state = "scheduled"
    /\ batch_tasks' =
           [batch_tasks EXCEPT ![k] = GenerateSingleChapter(@, batch_outline)]
    /\ UNCHANGED <<baseVars, llmVars, scoreVars, requestVars, managerVars,
                   rateVars, readerVars, lockVars,
                   chapter_outlines, batch_outline,
                   batch_i, all_results, batch_out>>

\* the await of line 128 or 134 resumes: gather raises the exception of a
\* task that failed, else it returns the results in the order of its
\* arguments (129-130 and 135-137)
GatherResume ==
    /\ batch_out.kind = "gather"
    /\ \/ Failed(batch_tasks) # {}
       \/ \A k \in 1 .. Len(batch_tasks) : batch_tasks[k].state = "done"
    /\ IF Failed(batch_tasks) # {}
       THEN /\ batch_out' =
                   [kind |-> "raised",
                    error |-> batch_tasks[CHOOSE k \in Failed(batch_tasks) :
                                  \A j \in Failed(batch_tasks) : k <= j].error]
            /\ UNCHANGED <<batch_tasks, all_results, batch_i>>
       ELSE LET results == all_results \o
                           [k \in 1 .. Len(batch_tasks) |->
                                batch_tasks[k].result]
            IN  /\ all_results' = results
                /\ batch_tasks' = <<>>
                /\ IF batch_i < Len(chapter_outlines)
                   THEN /\ batch_i' = batch_i + 1
                        /\ batch_out' = [kind |-> "loop"]
                   ELSE /\ batch_i' = batch_i
                        /\ batch_out' =
                               [kind |-> "returned",
                                value |-> SortedByChapterNum(results)]
    /\ UNCHANGED <<baseVars, llmVars, scoreVars, requestVars, managerVars,
                   rateVars, readerVars, lockVars,
                   chapter_outlines, batch_outline>>

InitBatch ==
    /\ redisUp = FALSE
    /\ redisFlaky = FALSE
    /\ OrchIdle
    /\ RouteIdle
    /\ llm_fn = NONE
    /\ llm_pc = "idle"
    /\ attempt_number = 0
    /\ attempt_log = <<>>
    /\ slept = <<>>
    /\ llm_result = [kind |-> NONE]
    /\ review_data = NoTask
    /\ quality_score = <<>>
    /\ raw_request = NoTask
    /\ validation = NONE
    /\ SideIdle
    /\ LockIdle
    /\ chapter_outlines \in SeqsUpTo(ChapterOutlineShapes, MaxBatchOutlines)
    /\ batch_outline = NovelOutline
    /\ batch_i = 0
    /\ batch_tasks = <<>>
    /\ all_results = <<>>
    /\ batch_out = [kind |-> "loop"]

NextBatch ==
    \/ BatchLoop
    \/ BatchTail
    \/ \E k \in 1 .. BatchSize + 1 : RunChapter(k)
    \/ GatherResume

SpecBatch == InitBatch /\ [][NextBatch]_vars

\* the tasks a gather has started that have not finished
InFlight(ts) ==
    {k \in 1 .. Len(ts) : ts[k].state \in {"scheduled", "awaiting"}}

AtMostThreeInFlight == Cardinality(InFlight(batch_tasks)) <= 3

\* a call that returned a list had no task that failed, and a call that
\* raised carries no list
FailureFailsAll ==
    /\ batch_out.kind = "returned" =>
           /\ Failed(batch_tasks) = {}
           /\ Len(batch_out.value) = Len(chapter_outlines)
    /\ batch_out.kind = "raised" =>
           /\ Failed(batch_tasks) # {}
           /\ ~HasKey(batch_out, "value")
    /\ Failed(batch_tasks) # {} => batch_out.kind \in {"gather", "raised"}

\* a step that starts tasks starts them when none is in flight or failed
BatchBarrier ==
    InFlight(batch_tasks') \ InFlight(batch_tasks) # {} =>
        /\ InFlight(batch_tasks) = {}
        /\ Failed(batch_tasks) = {}
        /\ batch_out.kind = "loop"

C30_OneChapterPerOutline ==
    batch_out.kind \in {"returned", "raised"} =>
        /\ batch_out.kind = "returned"
        /\ Len(batch_out.value) = Len(chapter_outlines)
        /\ \A k \in 1 .. Len(chapter_outlines) :
               /\ batch_out.value[k].chapter_num = k
               /\ batch_out.value[k].title = chapter_outlines[k].title

-----------------------------------------------------------------------------
\* the outputs that made up chapter ch: its Writer drafts and its Editor
\* versions; all but the last were superseded
VersionsOf(ch) ==
    ch.h_writer_calls + ch.h_loop_edits + (IF ch.h_final_edit THEN 1 ELSE 0)

\* C31: every draft of a chapter that a later Writer or Editor output
\* superseded is kept in the chapter's revisions, so a chapter of the result
\* carries all its earlier versions.
C31_VersionsRetained ==
    result # <<>> =>
        \A k \in DOMAIN result[1].chapters :
            Len(result[1].chapters[k].revisions)
                = VersionsOf(result[1].chapters[k]) - 1

-----------------------------------------------------------------------------
\* every chapter the per-chapter loop returned is a Writer's draft, reached
\* with at most max_iterations - 1 Editor calls
ReturnedByWriter ==
    \A k \in DOMAIN chapters :
        /\ chapters[k].author = "writer"
        /\ chapters[k].h_loop_edits <= AGENT_MAX_ITERATIONS - 1
        /\ chapters[k].h_loop_edits < chapters[k].h_writer_calls

\* the loop returns in the step of a Writer call, with that call's draft, and
\* calls the Editor only while a Writer iteration is left
LoopReturnsDraft ==
    /\ chapters' # chapters /\ pc # "created" =>
           /\ pc = "writer"
           /\ chapters' = Append(chapters, chapter'[1])
           /\ chapter'[1].author = "writer"
    /\ pc = "editor" /\ calls' # calls =>
           /\ iteration < AGENT_MAX_ITERATIONS - 1
           /\ chapters' = chapters

\* C32: the chapter _create_chapter_with_collaboration returns is the draft
\* of its most recent Writer call, never an Editor's output; per chapter the
\* loop calls the Editor at most max_iterations - 1 times and never after
\* the last Writer iteration.
C32_WriterHasLastWord == [](ReturnedByWriter) /\ [][LoopReturnsDraft]_vars

\* a chapter returned after three Writer drafts and two Editor calls
C32_Witness ==
    \E k \in DOMAIN chapters :
        /\ chapters[k].h_writer_calls = AGENT_MAX_ITERATIONS
        /\ chapters[k].h_loop_edits = AGENT_MAX_ITERATIONS - 1
        /\ chapters[k].author = "writer"

-----------------------------------------------------------------------------
\* a Reviewer call of the final pass that gave a score leads to the Editor
\* exactly when the score is below 0.7, and the final pass calls the Editor
\* only for such a score
PolishBelowAcceptGate ==
    /\ /\ pc = "reviewer"
       /\ calls' # calls
       /\ review_response'.reply \in {"parsed", "not_json"}
       => (pc' = "final_editor"
              <=> review_response'.score < ReviewAcceptGate)
    /\ pc = "final_editor" /\ calls' # calls =>
           /\ review_response.score < ReviewAcceptGate
           /\ calls'[Len(calls')] =
                  <<"editor", chapters[review_idx].chapter_num, REVIEWING>>

\* C33: in the final review pass the Editor is invoked for a chapter exactly
\* when the Reviewer's quality_score for it is below 0.7, the parse-failure
\* score 0.6 included; a chapter scored in [0.7, 0.8) is not revised.
C33_PolishBelowAcceptGate == [][PolishBelowAcceptGate]_vars

\* a chapter scored 0.7 went through the final pass unedited
C33_Witness ==
    /\ pc = "reviewer"
    /\ review_response.reply = "parsed"
    /\ review_response.score = ReviewAcceptGate
    /\ review_response.score < PolishGate
    /\ polished_chapters # <<>>
    /\ ~polished_chapters[Len(polished_chapters)].h_final_edit

-----------------------------------------------------------------------------
\* C34: every entry of the map generate_parallel returns sits under the name
\* of the provider that produced its value or error, also when the list
\* holds names of unregistered providers; a name that was not invoked has no
\* entry with another provider's result.
C34_KeyedByProducer ==
    rpc = "parallel_done" =>
        \A name \in DOMAIN output :
            /\ output[name].by = name
            /\ name \in Range(attempts)

\* C35: with a provider registered, generate_with_fallback and route_request
\* raise the all-providers-failed error only after a provider was invoked
\* and failed, never because the candidate names are not registered.
C35_RaisesAfterAnAttempt ==
    /\ rpc = "fallback_done"
    /\ outcome.kind = "raised"
    /\ registry # <<>>
    => /\ attempts # <<>>
       /\ failures # <<>>

-----------------------------------------------------------------------------
\* main.py 309-338: what get_task_status would answer now; g is the outcome
\* of the cache read it makes when tasks_db does not hold the task
GetTaskStatus(g) ==
    LET task_data == IF DOMAIN tasks_db = {}
                     THEN (IF g THEN MainCache ELSE NoTask)
                     ELSE tasks_db
    IN  IF DOMAIN task_data = {} THEN [code |-> 404]
        ELSE [code |-> 200,
              status |-> task_data.status,
              progress |-> IF Has(task_data, "progress")
                           THEN task_data.progress ELSE 0,
              current_stage |-> IF Has(task_data, "current_stage")
                                THEN task_data.current_stage ELSE "processing"]

\* C36: every status and progress the orchestrator reports while it
\* generates (PLANNING 10, WRITING 25.., REVIEWING 80) is what a
\* get_task_status query made afterwards answers; a poller does not stay on
\* the first status and progress until the task is over.
C36_UpdatesVisible ==
    issued \in {PLANNING, WRITING, REVIEWING} =>
        \A g \in OpOutcomes :
            /\ GetTaskStatus(g).code = 200
            /\ GetTaskStatus(g).status = issued
            /\ GetTaskStatus(g).progress = issued_progress

\* C37: a task record that says COMPLETED holds the result; no reader of a
\* task store sees COMPLETED before the result is stored.
C37_CompletedHoldsResult ==
    \A t \in TaskRecords :
        (Has(t, "status") /\ t.status = COMPLETED) =>
            /\ Has(t, "result")
            /\ t.result # <<>>

-----------------------------------------------------------------------------
\* C38: a COMPLETED result holds at least one chapter; when the Planner's
\* outline has no chapter outlines the run ends FAILED, not COMPLETED with
\* an empty chapter list.
C38_NoEmptyNovel ==
    /\ result # <<>> => Len(result[1].chapters) >= 1
    /\ \A t \in TaskRecords :
          (Has(t, "status") /\ t.status = COMPLETED) => outline >= 1
    /\ (pc = "done" /\ planner_reply = "outline" /\ outline = 0) =>
          /\ tasks_db.status = FAILED
          /\ tasks_db.error = "division_by_zero"
          /\ result = <<>>

\* a run on an outline without chapter outlines, over and FAILED
C38_Witness ==
    /\ pc = "done"
    /\ planner_reply = "outline"
    /\ outline = 0
    /\ calls = <<<<"planner", 0, PLANNING>>>>
    /\ tasks_db.status = FAILED

-----------------------------------------------------------------------------
\* C39: every chapter task of generate_chapters_batch builds its context
\* window from the story outline handed to generate_chapters_batch, whatever
\* its batch and whenever it runs; it never reads a chapter outline in its
\* place.
C39_ContextFromStoryOutline ==
    \A k \in DOMAIN batch_tasks :
        batch_tasks[k].state \in {"failed", "awaiting", "done"} =>
            /\ batch_tasks[k].context_from = NovelOutline
            /\ batch_tasks[k].context_from \notin Range(chapter_outlines)

-----------------------------------------------------------------------------
\* RedisCache.acquire_lock and release_lock (redis_cache.py 513-581), for one
\* lock name.  With a client the lock is a key of the server, set with
\* SET NX EX and deleted by a script; without one it is an entry of the dict
\* _lock_cache, read and written by separate statements that the threads of
\* the callers can interleave.

\* the key as the server sees it: gone once its expiry is reached
LiveEntry ==
    IF redisUp /\ lock_entry # NoLock /\ lock_clock >= lock_entry.expires_at
    THEN NoLock ELSE lock_entry

\* redis_cache.py 516-526 and 550-552: a new identifier, then
\* client.set(key, identifier, nx=True, ex=expire), one command of the
\* server.  The call returns None when the key stays taken until its timeout
\* or when the command raises.
AcquireRedis(t) ==
    /\ redisUp
    /\ lock_calls[t].pc = "idle"
    /\ lock_held[t] = NoLock
    /\ lock_next < MaxLockCalls
    /\ lock_next' = lock_next + 1
    /\ \E ok \in OpOutcomes :
          LET grant == [identifier |-> lock_next + 1,
                        expires_at |-> lock_clock + LockExpireTicks]
          IN  IF ok /\ LiveEntry = NoLock
              THEN /\ lock_entry' = grant
                   /\ lock_held' = [lock_held EXCEPT ![t] = grant]
                   /\ lock_calls' = [lock_calls EXCEPT ![t] =
                          [pc |-> "idle", identifier |-> grant.identifier,
                           result |-> "granted"]]
              ELSE /\ lock_calls' = [lock_calls EXCEPT ![t] =
                          [pc |-> "idle", identifier |-> grant.identifier,
                           result |-> "refused"]]
                   /\ UNCHANGED <<lock_entry, lock_held>>
    /\ UNCHANGED <<baseVars, llmVars, scoreVars, requestVars, managerVars,
                   rateVars, readerVars, batchVars, lock_clock>>

\* redis_cache.py 559-569 and 579-581: the script compares and deletes in one
\* step of the server
ReleaseRedis(t) ==
    /\ redisUp
    /\ lock_calls[t].pc = "idle"
    /\ lock_held[t] # NoLock
    /\ \E ok \in OpOutcomes :
          IF ok /\ LiveEntry.identifier = lock_held[t].identifier
          THEN /\ lock_entry' = NoLock
               /\ lock_calls' = [lock_calls EXCEPT ![t] =
                      [pc |-> "idle", identifier |-> lock_held[t].identifier,
                       result |-> "released"]]
          ELSE /\ lock_calls' = [lock_calls EXCEPT ![t] =
                      [pc |-> "idle", identifier |-> lock_held[t].identifier,
                       result |-> "not_released"]]
               /\ UNCHANGED lock_entry
    /\ lock_held' = [lock_held EXCEPT ![t] = NoLock]
    /\ UNCHANGED <<baseVars, llmVars, scoreVars, requestVars, managerVars,
                   rateVars, readerVars, batchVars, lock_clock, lock_next>>

\* redis_cache.py 516 and 529-541, 548: without a client the call looks the
\* key up and, when it is there, compares its expires_at with the clock
AcquireCheck(t) ==
    /\ ~redisUp
    /\ lock_calls[t].pc = "idle"
    /\ lock_held[t] = NoLock
    /\ lock_next < MaxLockCalls
    /\ lock_next' = lock_next + 1
    /\ lock_calls' = [lock_calls EXCEPT ![t] =
          IF lock_entry = NoLock \/ lock_entry.expires_at < lock_clock
          THEN [pc |-> "store", identifier |-> lock_next + 1, result |-> NONE]
          ELSE [pc |-> "idle", identifier |-> lock_next + 1,
                result |-> "refused"]]
    /\ UNCHANGED <<baseVars, llmVars, scoreVars, requestVars, managerVars,
                   rateVars, readerVars, batchVars, lock_clock, lock_entry,
                   lock_held>>

\* redis_cache.py 533-537 and 542-546: the entry is written and the
\* identifier returned
AcquireStore(t) ==
    /\ lock_calls[t].pc = "store"
    /\ LET grant == [identifier |-> lock_calls[t].identifier,
                     expires_at |-> lock_clock + LockExpireTicks]
       IN  /\ lock_entry' = grant
           /\ lock_held' = [lock_held EXCEPT ![t] = grant]
    /\ lock_calls' = [lock_calls EXCEPT ![t].pc = "idle",
                                        ![t].result = "granted"]
    /\ UNCHANGED <<baseVars, llmVars, scoreVars, requestVars, managerVars,
                   rateVars, readerVars, batchVars, lock_clock, lock_next>>

\* redis_cache.py 572-574 and 577: the entry's identifier is compared
ReleaseCheck(t) ==
    /\ ~redisUp
    /\ lock_calls[t].pc = "idle"
    /\ lock_held[t] # NoLock
    /\ IF lock_entry # NoLock
          /\ lock_entry.identifier = lock_held[t].identifier
       THEN /\ lock_calls' = [lock_calls EXCEPT ![t] =
                   [pc |-> "delete", identifier |-> lock_held[t].identifier,
                    result |-> NONE]]
            /\ UNCHANGED lock_held
       ELSE /\ lock_calls' = [lock_calls EXCEPT ![t] =
                   [pc |-> "idle", identifier |-> lock_held[t].identifier,
                    result |-> "not_released"]]
            /\ lock_held' = [lock_held EXCEPT ![t] = NoLock]
    /\ UNCHANGED <<baseVars, llmVars, scoreVars, requestVars, managerVars,
                   rateVars, readerVars, batchVars, lock_clock, lock_entry,
                   lock_next>>

\* redis_cache.py 575-576: del self._lock_cache[key]; a key that is gone by
\* now raises KeyError, which the except clause of 579-581 turns into False
ReleaseDelete(t) ==
    /\ lock_calls[t].pc = "delete"
    /\ lock_entry' = NoLock
    /\ lock_calls' = [lock_calls EXCEPT
          ![t].pc = "idle",
          ![t].result = IF lock_entry = NoLock THEN "not_released"
                        ELSE "released"]
    /\ lock_held' = [lock_held EXCEPT ![t] = NoLock]
    /\ UNCHANGED <<baseVars, llmVars, scoreVars, requestVars, managerVars,
                   rateVars, readerVars, batchVars, lock_clock, lock_next>>

\* time passes
LockTick ==
    /\ lock_clock < MaxLockClock
    /\ lock_clock' = lock_clock + 1
    /\ UNCHANGED <<baseVars, llmVars, scoreVars, requestVars, managerVars,
                   rateVars, readerVars, batchVars, lock_entry, lock_calls,
                   lock_held, lock_next>>

\* a cache connected to a Redis server, which may fail later, or one without
\* a client
InitLock ==
    /\ redisUp \in BOOLEAN
    /\ redisFlaky \in BOOLEAN
    /\ redisFlaky => redisUp
    /\ OrchIdle
    /\ RouteIdle
    /\ UnitsIdle

NextLock ==
    \/ \E t \in Callers : AcquireRedis(t)
    \/ \E t \in Callers : ReleaseRedis(t)
    \/ \E t \in Callers : AcquireCheck(t)
    \/ \E t \in Callers : AcquireStore(t)
    \/ \E t \in Callers : ReleaseCheck(t)
    \/ \E t \in Callers : ReleaseDelete(t)
    \/ LockTick

SpecLock == InitLock /\ [][NextLock]_vars

\* the callers that were handed an identifier whose lock has not expired
Holders ==
    {t \in Callers : lock_held[t] # NoLock
                     /\ lock_clock < lock_held[t].expires_at}

MutualExclusion == Cardinality(Holders) <= 1

\* an acquire_lock call is granted only when no other caller holds an
\* unexpired lock
GrantedWhenFree ==
    \A t \in Callers :
        lock_held[t] = NoLock /\ lock_held'[t] # NoLock =>
            Holders \ {t} = {}

\* a release_lock call whose identifier is not the entry's returns False and
\* leaves the entry as it is
ReleaseOwnOnly ==
    \A t \in Callers :
        /\ lock_held[t] # NoLock
        /\ lock_held'[t] = NoLock
        /\ lock_held[t].identifier # lock_entry.identifier
        => /\ lock_entry' = lock_entry
           /\ lock_calls'[t].result = "not_released"

\* C40: acquire_lock gives mutual exclusion per lock name under every
\* interleaving of callers: while a lock is held and not expired every other
\* acquire_lock returns None, so no two callers hold an unexpired lock; and
\* release_lock with an identifier that is not the holder's returns False
\* and leaves the lock held.
C40_MutualExclusion ==
    [](MutualExclusion) /\ [][GrantedWhenFree /\ ReleaseOwnOnly]_vars

=============================================================================
